---- MODULE Spec2Model ----
(***************************************************************************)
(* Layout + alignment pipeline of LSCP (backend/api/dual_layout.py and     *)
(* backend/api/dual_layout_umap.py).                                       *)
(*                                                                         *)
(* Python dictionaries are insertion-ordered: a dict is modelled as a      *)
(* sequence of <<key, value>> pairs with pairwise distinct keys.  Concept  *)
(* names are modelled by naturals, whose order stands for the string order *)
(* used by sorted() and by "ORDER BY name".                                *)
(***************************************************************************)
EXTENDS Integers, Sequences, FiniteSets, TLC

VARIABLES knn, layout, align, amplify, dual, manifold, server, session, viewer,
          scanner, loader

vars == <<knn, layout, align, amplify, dual, manifold, server, session, viewer,
          scanner, loader>>

-----------------------------------------------------------------------------
(* Bounds of the model *)

\* concept names available to compute_knn_relationships
KnnIds == 3
\* largest k passed to compute_knn_relationships
MaxK == 3
\* concept names available to get_graph_layout_3d
LayoutIds == 3
\* longest relationship list passed to get_graph_layout_3d
MaxRel == 2
\* candidate placements the spring layout may return for one graph
NumPlacements == 2
\* concept names available to align_layouts_procrustes
AlignIds == 4
\* candidate orthogonal matrices the SVD step may return
NumRotations == 6
\* concept names available to apply_drift_amplification
AmpIds == 2
\* largest amplification factor
MaxFactor == 3
\* significand bits of the floating-point format of the model (float64 has 53)
SignificandBits == 3
\* concepts in the database read by generate_dual_layout
DualIds == 4
\* concepts in the database read by the viewer
ViewerIds == 3
\* longest concept list passed to batch_scan
ScanLen == 3
\* the dimension stored AI vectors are cut to: the code's 5120 scaled to the model
AiDim == 2
\* concepts whose stored arrays are loaded
LoadIds == 2

-----------------------------------------------------------------------------
(* Generic helpers: sequences and insertion-ordered dictionaries *)

Min(a, b) == IF a <= b THEN a ELSE b

Range(s) == {s[i] : i \in 1..Len(s)}

\* the sequences of length n over S without repetition
InjSeqs(S, n) == {s \in [1..n -> S] : \A i, j \in 1..n : s[i] = s[j] => i = j}

\* every dict with at most maxLen distinct keys of K and values of V
OrderedDicts(K, V, maxLen) ==
    UNION {{[i \in 1..n |-> <<ks[i], vs[i]>>] : ks \in InjSeqs(K, n), vs \in [1..n -> V]} :
           n \in 0..maxLen}

\* list(d.keys())
Keys(d) == [i \in 1..Len(d) |-> d[i][1]]

\* set(d.keys())
KeySet(d) == {d[i][1] : i \in 1..Len(d)}

\* key in d
HasKey(d, key) == key \in KeySet(d)

\* d[key], for a key of d
Get(d, key) == d[CHOOSE i \in 1..Len(d) : d[i][1] = key][2]

-----------------------------------------------------------------------------
(* compute_knn_relationships: dual_layout.py 18-63 *)

\* embedding vectors of the model (2 components), zero vector included
EmbVals == {<<0, 0>>, <<1, 0>>, <<2, 0>>, <<0, 1>>, <<1, 1>>, <<-1, 0>>}

\* np.dot(u, v)
Dot(u, v) == u[1] * v[1] + u[2] * v[2]

\* np.linalg.norm(v) == 0
ZeroNorm(v) == Dot(v, v) = 0

\* dist = 1.0 - np.dot(emb, other_emb) / (emb_norm * other_norm), kept exactly as
\* the pair (dot, (emb_norm * other_norm)^2): the value is 1 - dot / sqrt(nsq)
CosineDist(emb, other_emb) ==
    [dot |-> Dot(emb, other_emb), nsq |-> Dot(emb, emb) * Dot(other_emb, other_emb)]

\* a < b for two cosine distances (exact comparison of dot / sqrt(nsq), larger
\* similarity is smaller distance)
DistLess(a, b) ==
    IF a.dot >= 0 /\ b.dot < 0 THEN TRUE
    ELSE IF a.dot < 0 /\ b.dot >= 0 THEN FALSE
    ELSE IF a.dot >= 0 THEN a.dot * a.dot * b.nsq > b.dot * b.dot * a.nsq
    ELSE a.dot * a.dot * b.nsq < b.dot * b.dot * a.nsq

\* mutation: the target's norm is not tested
RECURSIVE CandidatesNoNormTest(_, _, _)
CandidatesNoNormTest(embeddings, concept, i) ==
    IF i = 0 THEN <<>>
    ELSE LET other == embeddings[i][1]
             rest == CandidatesNoNormTest(embeddings, concept, i - 1)
         IN IF other /= concept
            THEN Append(rest, <<other, CosineDist(Get(embeddings, concept), embeddings[i][2])>>)
            ELSE rest

\* mutation: the concept itself is not left out
RECURSIVE CandidatesWithSelf(_, _, _)
CandidatesWithSelf(embeddings, concept, i) ==
    IF i = 0 THEN <<>>
    ELSE LET other_emb == embeddings[i][2]
             rest == CandidatesWithSelf(embeddings, concept, i - 1)
         IN IF ~ZeroNorm(other_emb)
            THEN Append(rest, <<embeddings[i][1], CosineDist(Get(embeddings, concept), other_emb)>>)
            ELSE rest

\* the (other, dist) list built by the inner loop, dual_layout.py 42-55
RECURSIVE Candidates(_, _, _)
Candidates(embeddings, concept, i) ==
    IF i = 0 THEN <<>>
    ELSE LET other == embeddings[i][1]
             other_emb == embeddings[i][2]
             rest == Candidates(embeddings, concept, i - 1)
         IN IF other /= concept /\ ~ZeroNorm(other_emb)
            THEN Append(rest, <<other, CosineDist(Get(embeddings, concept), other_emb)>>)
            ELSE rest

\* one step of the stable sort: x goes after every element that is not greater
RECURSIVE InsertByDist(_, _)
InsertByDist(sorted, x) ==
    IF sorted = <<>> THEN <<x>>
    ELSE IF DistLess(x[2], sorted[Len(sorted)][2])
         THEN Append(InsertByDist(SubSeq(sorted, 1, Len(sorted) - 1), x), sorted[Len(sorted)])
         ELSE Append(sorted, x)

RECURSIVE SortByDistUpTo(_, _)
SortByDistUpTo(distances, n) ==
    IF n = 0 THEN <<>> ELSE InsertByDist(SortByDistUpTo(distances, n - 1), distances[n])

\* mutation: the candidates are left in dict order
SortByDistOmitted(distances) == distances

\* distances.sort(key=lambda x: x[1]): stable, ascending
SortByDist(distances) == SortByDistUpTo(distances, Len(distances))

\* distances[:k] for k >= 0
TakeFirst(distances, k) == SubSeq(distances, 1, Min(k, Len(distances)))

\* the edges one source concept contributes, dual_layout.py 36-60
EdgesOf(embeddings, concept, k) ==
    IF ZeroNorm(Get(embeddings, concept)) THEN <<>>
    ELSE LET kept == TakeFirst(SortByDist(Candidates(embeddings, concept, Len(embeddings))), k)
         IN [j \in 1..Len(kept) |-> <<concept, kept[j][1], kept[j][2]>>]

\* the outer loop over the concepts, in dict order
RECURSIVE KnnUpTo(_, _, _)
KnnUpTo(embeddings, k, n) ==
    IF n = 0 THEN <<>>
    ELSE KnnUpTo(embeddings, k, n - 1) \o EdgesOf(embeddings, embeddings[n][1], k)

compute_knn_relationships(embeddings, k) == KnnUpTo(embeddings, k, Len(embeddings))

KnnIdle == [pc |-> "idle", embeddings |-> <<>>, k |-> 0, relationships |-> <<>>]

KnnReturn ==
    /\ knn.pc = "call"
    /\ knn' = [knn EXCEPT !.pc = "return",
                          !.relationships = compute_knn_relationships(knn.embeddings, knn.k)]
    /\ UNCHANGED <<layout, align, amplify, dual, manifold, server, session, viewer, scanner, loader>>

-----------------------------------------------------------------------------
(* get_graph_layout_3d: dual_layout.py 66-101 *)

\* distances a relationship row may carry (cosine distances 0 and 1)
RelDists == {CosineDist(<<1, 0>>, <<1, 0>>), CosineDist(<<1, 0>>, <<0, 1>>)}

\* weight = 1.0 / ((distance + 0.1) ** 2), kept as the term over the exact distance
Weight(distance) == [inv_sq_of |-> distance, offset_tenths |-> 1]

\* the empty nx.Graph(): nodes in insertion order, one weight per unordered pair
EmptyGraph == [nodes |-> <<>>, weight |-> <<>>]

\* G.add_node(n) as add_edge does it: a node already present keeps its place
AddNode(nodes, n) == IF n \in Range(nodes) THEN nodes ELSE Append(nodes, n)

\* mutation: only the source becomes a node
AddEdgeSourceOnly(G, source, target, weight) ==
    [G EXCEPT !.nodes = AddNode(@, source),
              !.weight = [e \in DOMAIN @ \cup {{source, target}} |->
                            IF e = {source, target} THEN weight ELSE @[e]]]

\* G.add_edge(source, target, weight=weight): the graph is undirected, a pair
\* added again keeps one edge and takes the new weight
AddEdge(G, source, target, weight) ==
    [G EXCEPT !.nodes = AddNode(AddNode(@, source), target),
              !.weight = [e \in DOMAIN @ \cup {{source, target}} |->
                            IF e = {source, target} THEN weight ELSE @[e]]]

\* mutation: the membership test of the target is dropped
RetainedSourceOnly(embeddings, rel) == HasKey(embeddings, rel[1])

\* the guard of dual_layout.py 88
Retained(embeddings, rel) == HasKey(embeddings, rel[1]) /\ HasKey(embeddings, rel[2])

\* the loop of dual_layout.py 87-92
RECURSIVE BuildGraph(_, _, _)
BuildGraph(embeddings, relationships, n) ==
    IF n = 0 THEN EmptyGraph
    ELSE LET G == BuildGraph(embeddings, relationships, n - 1)
             rel == relationships[n]
         IN IF Retained(embeddings, rel)
            THEN AddEdge(G, rel[1], rel[2], Weight(rel[3]))
            ELSE G

\* points of the layout space: the corners of the unit cube, distinct for 0..7
GridPt(i) == <<i % 2, (i \div 2) % 2, (i \div 4) % 2>>

\* nx.spring_layout(G, dim=3, ...): the iteration is not computed here; it
\* returns one position per node of G, distinct nodes at distinct positions.
\* The candidates are the placements of the node list on consecutive grid points.
SpringLayoutAt(G, p) == [i \in 1..Len(G.nodes) |-> <<G.nodes[i], GridPt(i - 1 + p)>>]

SpringLayouts(G) == {SpringLayoutAt(G, p) : p \in 0..(NumPlacements - 1)}

\* coords = {node: (np.array(coord) * 10).astype(np.float32) ...}, dual_layout.py 98-99
ScaleCoords(pos) ==
    [i \in 1..Len(pos) |-> <<pos[i][1], <<pos[i][2][1] * 10, pos[i][2][2] * 10, pos[i][2][3] * 10>>>>]

\* the whole call; p is the placement the spring layout returns
get_graph_layout_3d(embeddings, relationships, p) ==
    ScaleCoords(SpringLayoutAt(BuildGraph(embeddings, relationships, Len(relationships)), p))

LayoutIdle == [pc |-> "idle", embeddings |-> <<>>, relationships |-> <<>>,
               G |-> EmptyGraph, coords |-> <<>>]

\* dicts whose keys are a subset of 1..n in ascending order, all values v
SortedDicts(n, v) ==
    {d \in OrderedDicts(1..n, {v}, n) : \A i, j \in 1..Len(d) : i < j => d[i][1] < d[j][1]}

\* relationship lists of at most maxLen rows over the names 1..n
RelLists(n, maxLen) ==
    UNION {[1..m -> (1..n) \X (1..n) \X RelDists] : m \in 0..maxLen}

LayoutReturn ==
    /\ layout.pc = "call"
    /\ LET G == BuildGraph(layout.embeddings, layout.relationships, Len(layout.relationships))
       IN \E pos \in SpringLayouts(G) :
            layout' = [layout EXCEPT !.pc = "return", !.G = G,
                                     !.coords = ScaleCoords(pos)]
    /\ UNCHANGED <<knn, align, amplify, dual, manifold, server, session, viewer, scanner, loader>>

-----------------------------------------------------------------------------
(* align_layouts_procrustes: dual_layout.py 104-200 *)

\* sorted(S) for a set of concept names
RECURSIVE SortedSeq(_)
SortedSeq(S) ==
    IF S = {} THEN <<>>
    ELSE LET least == CHOOSE x \in S : \A y \in S : x <= y
         IN <<least>> \o SortedSeq(S \ {least})

\* mutation: the shared names in the order of human_coords, not sorted
RECURSIVE SharedInHumanOrder(_, _)
SharedInHumanOrder(human_coords, ai_coords) ==
    IF human_coords = <<>> THEN <<>>
    ELSE LET rest == SharedInHumanOrder(SubSeq(human_coords, 1, Len(human_coords) - 1), ai_coords)
             last == human_coords[Len(human_coords)][1]
         IN IF HasKey(ai_coords, last) THEN Append(rest, last) ELSE rest

\* shared_concepts = sorted(set(human_coords.keys()) & set(ai_coords.keys()))
SharedConcepts(human_coords, ai_coords) ==
    SortedSeq(KeySet(human_coords) \cap KeySet(ai_coords))

\* mutation: two shared concepts are accepted
TooFewSharedBelowTwo(shared_concepts) == Len(shared_concepts) < 2

\* len(shared_concepts) < 3
TooFewShared(shared_concepts) == Len(shared_concepts) < 3

\* np.array([coords[c] for c in shared_concepts])
MatrixOf(coords, shared_concepts) ==
    [i \in 1..Len(shared_concepts) |-> Get(coords, shared_concepts[i])]

VecAdd(u, v) == <<u[1] + v[1], u[2] + v[2], u[3] + v[3]>>
VecSub(u, v) == <<u[1] - v[1], u[2] - v[2], u[3] - v[3]>>
VecTimes(c, v) == <<c * v[1], c * v[2], c * v[3]>>
NormSq(v) == v[1] * v[1] + v[2] * v[2] + v[3] * v[3]

RECURSIVE ColumnSum(_, _)
ColumnSum(matrix, n) ==
    IF n = 0 THEN <<0, 0, 0>> ELSE VecAdd(ColumnSum(matrix, n - 1), matrix[n])

\* matrix - np.mean(matrix, axis=0), kept in units of 1/N (N rows): row i is
\* N * matrix[i] - sum of the rows, so the integers stay exact
Centered(matrix) ==
    LET total == ColumnSum(matrix, Len(matrix))
    IN [i \in 1..Len(matrix) |-> VecSub(VecTimes(Len(matrix), matrix[i]), total)]

\* np.std(centered) == 0, np.linalg.norm(centered) == 0: every centered row is zero
ZeroSpread(centered) == \A i \in 1..Len(centered) : centered[i] = <<0, 0, 0>>

\* ai_centered.T @ human_centered is the zero matrix (its singular values sum to 0)
ZeroCrossCovariance(ai_centered, human_centered) ==
    \A a, b \in 1..3 :
        LET RECURSIVE Entry(_)
            Entry(n) == IF n = 0 THEN 0 ELSE Entry(n - 1) + ai_centered[n][a] * human_centered[n][b]
        IN Entry(Len(ai_centered)) = 0

\* v @ R for the r-th orthogonal matrix of the model.  The matrices are signed
\* permutation matrices (identity, a reflection, an axis swap, a half turn about
\* z, a half turn about x, a reflection in the plane z = 0); each is its own
\* inverse.
Rotated(v, r) ==
    CASE r % 6 = 0 -> v
      [] r % 6 = 1 -> <<-v[1], v[2], v[3]>>
      [] r % 6 = 2 -> <<v[2], v[1], v[3]>>
      [] r % 6 = 3 -> <<-v[1], -v[2], v[3]>>
      [] r % 6 = 4 -> <<v[1], -v[2], -v[3]>>
      [] OTHER -> <<v[1], v[2], -v[3]>>

\* the matrices of determinant +1 among them: the identity and the half turns
ProperRotations == {r \in 0..(NumRotations - 1) : r % 6 \in {0, 3, 4}}

RotateRows(centered, r) == [i \in 1..Len(centered) |-> Rotated(centered[i], r)]

RECURSIVE SumSqResiduals(_, _, _)
SumSqResiduals(m1, m2, n) ==
    IF n = 0 THEN 0 ELSE SumSqResiduals(m1, m2, n - 1) + NormSq(VecSub(m1[n], m2[n]))

\* mutation: R is any orthogonal matrix, not the one the SVD gives
AnyRotation(human_centered, ai_centered) == 0..(NumRotations - 1)

\* U, S, Vt = np.linalg.svd(ai_centered.T @ human_centered); R = U @ Vt,
\* dual_layout.py 148-149.  R is an orthogonal matrix (there is no test of its
\* determinant) for which ai_centered @ R is as close to human_centered as an
\* orthogonal matrix can bring it; where several are equally close the
\* factorisation may return any of them.  The SVD is not computed here: the
\* result is one of the model's matrices that no other one beats.
SvdRotations(human_centered, ai_centered) ==
    LET n == Len(human_centered)
        RECURSIVE Residuals(_)
        Residuals(k) ==
            IF k = 0 THEN <<>>
            ELSE Append(Residuals(k - 1),
                        SumSqResiduals(human_centered, RotateRows(ai_centered, k - 1), n))
        residual == Residuals(NumRotations)
    IN {r \in 0..(NumRotations - 1) :
          \A q \in 0..(NumRotations - 1) : residual[r + 1] <= residual[q + 1]}

\* the matrices R the alignment of two coordinate dicts may compute
RotationsOf(human_coords, ai_coords) ==
    LET shared_concepts == SharedConcepts(human_coords, ai_coords)
    IN SvdRotations(Centered(MatrixOf(human_coords, shared_concepts)),
                    Centered(MatrixOf(ai_coords, shared_concepts)))

\* a row of a matrix multiplied by an infinite scale factor (nan or inf entries)
NonFinite == <<"nan", "nan", "nan">>

\* np.std(matrix) of a centered matrix, kept as the sum of its squared entries
\* (the square of the std times the number of entries, in units of 1/N)
StdSq(matrix) ==
    SumSqResiduals(matrix, [i \in 1..Len(matrix) |-> <<0, 0, 0>>], Len(matrix))

\* mutation: the viewing scale is taken from the rotated AI matrix
StdArgumentOfAi(human_centered, ai_rotated) == ai_rotated

\* the matrix whose std divides the viewing scale: np.std(human_centered),
\* dual_layout.py 163 and dual_layout_umap.py 51
StdArgument(human_centered, ai_rotated) == human_centered

\* the preserve_scale branch, dual_layout.py 133-178.  scale_factor = 5.0 / std is
\* positive and multiplies both matrices: rows are kept in units of scale_factor / N.
\* A zero std makes scale_factor infinite (numpy divides, it does not raise).
Authentic(human_matrix, ai_matrix, r) ==
    LET human_centered == Centered(human_matrix)
        ai_rotated == RotateRows(Centered(ai_matrix), r)
        std_sq == StdSq(StdArgument(human_centered, ai_rotated))
        finite == std_sq /= 0
    IN [error |-> "none", R |-> r, std_sq |-> std_sq,
        finite |-> finite,
        mtx1 |-> IF finite THEN human_centered ELSE [i \in 1..Len(human_matrix) |-> NonFinite],
        mtx2 |-> IF finite THEN ai_rotated ELSE [i \in 1..Len(human_matrix) |-> NonFinite],
        disparity |-> [form |-> "sqrt(sum_sq / n)",
                       sum_sq |-> SumSqResiduals(human_centered, ai_rotated, Len(human_matrix)),
                       n |-> Len(human_matrix)],
        scale_from |-> "human", renormalized |-> FALSE]

\* the constrained branch, dual_layout.py 179-194.  scipy.spatial.procrustes
\* raises ValueError when either centered matrix has norm 0; otherwise both
\* matrices get unit norm, the AI matrix is rotated and scaled by the sum s of the
\* singular values.  Rows are kept up to the positive factors applied to each matrix;
\* with s = 0 the AI rows are zero and the variance step is skipped.
Constrained(human_matrix, ai_matrix, r) ==
    LET human_centered == Centered(human_matrix)
        ai_centered == Centered(ai_matrix)
        s_zero == ZeroCrossCovariance(ai_centered, human_centered)
        ai_rotated == RotateRows(ai_centered, r)
    IN IF ZeroSpread(human_centered) \/ ZeroSpread(ai_centered)
       THEN [error |-> "ProcrustesValueError", R |-> 0, std_sq |-> 0,
             finite |-> TRUE, mtx1 |-> <<>>, mtx2 |-> <<>>,
             disparity |-> [form |-> "none", sum_sq |-> 0, n |-> 0],
             scale_from |-> "none", renormalized |-> FALSE]
       ELSE [error |-> "none", R |-> r, std_sq |-> 0,
             finite |-> TRUE,
             mtx1 |-> human_centered,
             mtx2 |-> IF s_zero THEN [i \in 1..Len(ai_matrix) |-> <<0, 0, 0>>] ELSE ai_rotated,
             disparity |-> [form |-> "sum_sq of unit-norm matrices",
                            sum_sq |-> SumSqResiduals(human_centered, ai_rotated, Len(human_matrix)),
                            n |-> Len(human_matrix)],
             scale_from |-> "constant", renormalized |-> ~s_zero]

\* aligned = {c: mtx[i] for i, c in enumerate(shared_concepts)}
DictOfRows(shared_concepts, mtx) ==
    [i \in 1..Len(shared_concepts) |-> <<shared_concepts[i], mtx[i]>>]

\* the whole call; r is the orthogonal matrix the SVD step returns
align_layouts_procrustes(human_coords, ai_coords, preserve_scale, r) ==
    LET shared_concepts == SharedConcepts(human_coords, ai_coords)
        human_matrix == MatrixOf(human_coords, shared_concepts)
        ai_matrix == MatrixOf(ai_coords, shared_concepts)
        out == IF preserve_scale THEN Authentic(human_matrix, ai_matrix, r)
               ELSE Constrained(human_matrix, ai_matrix, r)
    IN IF TooFewShared(shared_concepts)
       THEN [error |-> "InsufficientOverlap", shared_concepts |-> shared_concepts,
             human_matrix |-> <<>>, ai_matrix |-> <<>>, R |-> 0, std_sq |-> 0, finite |-> TRUE,
             aligned_human |-> <<>>, aligned_ai |-> <<>>,
             disparity |-> [form |-> "none", sum_sq |-> 0, n |-> 0],
             scale_from |-> "none", renormalized |-> FALSE]
       ELSE [error |-> out.error, shared_concepts |-> shared_concepts,
             human_matrix |-> human_matrix, ai_matrix |-> ai_matrix,
             R |-> out.R, std_sq |-> out.std_sq, finite |-> out.finite,
             aligned_human |-> IF out.error = "none" THEN DictOfRows(shared_concepts, out.mtx1) ELSE <<>>,
             aligned_ai |-> IF out.error = "none" THEN DictOfRows(shared_concepts, out.mtx2) ELSE <<>>,
             disparity |-> out.disparity,
             scale_from |-> out.scale_from, renormalized |-> out.renormalized]

NoResult == [error |-> "none", shared_concepts |-> <<>>, human_matrix |-> <<>>, ai_matrix |-> <<>>,
             R |-> 0, std_sq |-> 0, finite |-> TRUE, aligned_human |-> <<>>, aligned_ai |-> <<>>,
             disparity |-> [form |-> "none", sum_sq |-> 0, n |-> 0],
             scale_from |-> "none", renormalized |-> FALSE]

AlignIdle == [pc |-> "idle", human_coords |-> <<>>, ai_coords |-> <<>>, preserve_scale |-> FALSE,
              result |-> NoResult]

\* coordinates a caller may pass: two layout points
CoordVals == {<<0, 0, 0>>, <<10, 0, 0>>}

Reverse(d) == [i \in 1..Len(d) |-> d[Len(d) + 1 - i]]

\* dicts over a subset of 1..n with values of V, keys ascending
AscendingDicts(n, V) ==
    {d \in OrderedDicts(1..n, V, n) : \A i, j \in 1..Len(d) : i < j => d[i][1] < d[j][1]}

\* the dicts with the keys of d, in the same order, and any values of V
SameKeyDicts(d, V) ==
    {[i \in 1..Len(d) |-> <<d[i][1], v[i]>>] : v \in [1..Len(d) -> V]}

AlignReturn ==
    /\ align.pc = "call"
    /\ \E r \in RotationsOf(align.human_coords, align.ai_coords) :
          align' = [align EXCEPT !.pc = "return",
                                 !.result = align_layouts_procrustes(align.human_coords, align.ai_coords,
                                                                     align.preserve_scale, r)]
    /\ UNCHANGED <<knn, layout, amplify, dual, manifold, server, session, viewer, scanner, loader>>

-----------------------------------------------------------------------------
(* apply_drift_amplification: dual_layout.py 203-233 *)

(* The arrays hold binary floating-point numbers and every arithmetic operation  *)
(* rounds its exact result to the nearest representable number, ties to even.    *)
(* The model keeps that rule on integers with SignificandBits significant bits.  *)

RECURSIVE Pow2(_)
Pow2(n) == IF n = 0 THEN 1 ELSE 2 * Pow2(n - 1)

Abs(x) == IF x < 0 THEN -x ELSE x

\* the spacing of the representable numbers around magnitude m
RECURSIVE UlpFrom(_, _)
UlpFrom(m, u) == IF m < Pow2(SignificandBits) * u THEN u ELSE UlpFrom(m, 2 * u)

\* round to nearest, ties to even
Fl(x) ==
    LET m == Abs(x)
        u == UlpFrom(m, 1)
        q == m \div u
        rest == m % u
        up == IF 2 * rest < u THEN q
              ELSE IF 2 * rest > u THEN q + 1
              ELSE IF q % 2 = 0 THEN q ELSE q + 1
    IN IF x < 0 THEN -(up * u) ELSE up * u

Representable(x) == Fl(x) = x

\* mutation: the drift vector points from the AI position to the human position
DriftVectorReversed(a_pos, h_pos) ==
    <<Fl(h_pos[1] - a_pos[1]), Fl(h_pos[2] - a_pos[2]), Fl(h_pos[3] - a_pos[3])>>

\* drift_vector = a_pos - h_pos
DriftVector(a_pos, h_pos) ==
    <<Fl(a_pos[1] - h_pos[1]), Fl(a_pos[2] - h_pos[2]), Fl(a_pos[3] - h_pos[3])>>

\* amplified_pos = h_pos + (drift_vector * amplification_factor)
AmplifiedPos(h_pos, drift_vector, amplification_factor) ==
    <<Fl(h_pos[1] + Fl(drift_vector[1] * amplification_factor)),
      Fl(h_pos[2] + Fl(drift_vector[2] * amplification_factor)),
      Fl(h_pos[3] + Fl(drift_vector[3] * amplification_factor))>>

\* mutation: the loop runs over the keys of aligned_ai
LoopKeysOfAi(aligned_human, aligned_ai) == Keys(aligned_ai)

\* for concept in aligned_human.keys()
LoopKeys(aligned_human, aligned_ai) == Keys(aligned_human)

\* the whole call: aligned_ai[concept] raises KeyError for a loop key it lacks
apply_drift_amplification(aligned_human, aligned_ai, amplification_factor) ==
    LET keys == LoopKeys(aligned_human, aligned_ai)
    IN IF \E i \in 1..Len(keys) : ~HasKey(aligned_human, keys[i]) \/ ~HasKey(aligned_ai, keys[i])
       THEN [error |-> "KeyError", amplified_ai |-> <<>>]
       ELSE [error |-> "none",
             amplified_ai |->
                [i \in 1..Len(keys) |->
                    <<keys[i], AmplifiedPos(Get(aligned_human, keys[i]),
                                            DriftVector(Get(aligned_ai, keys[i]), Get(aligned_human, keys[i])),
                                            amplification_factor)>>]]

AmplifyIdle == [pc |-> "idle", aligned_human |-> <<>>, aligned_ai |-> <<>>, amplification_factor |-> 0,
                result |-> [error |-> "none", amplified_ai |-> <<>>]]

\* aligned positions a caller may pass (every component representable)
AmpVals == {<<0, 0, 0>>, <<16, 1, 2>>, <<1, 16, 0>>, <<3, 4, 8>>}

AmplifyReturn ==
    /\ amplify.pc = "call"
    /\ amplify' = [amplify EXCEPT !.pc = "return",
                                  !.result = apply_drift_amplification(amplify.aligned_human, amplify.aligned_ai,
                                                                       amplify.amplification_factor)]
    /\ UNCHANGED <<knn, layout, align, dual, manifold, server, session, viewer, scanner, loader>>

-----------------------------------------------------------------------------
(* generate_dual_layout: dual_layout.py 236-459 *)

\* k of both k-NN graphs, dual_layout.py 361 and 364
OrganicK == 8

\* the embedding stored for a concept with a usable vector
DualVec(c) == <<c, 1>>

\* mutation: a concept the file lacks is kept, with an all-zero embedding
RECURSIVE LoadEmbeddingsDefaulting(_, _, _)
LoadEmbeddingsDefaulting(concepts, data, n) ==
    IF n = 0 THEN <<>>
    ELSE LET rest == LoadEmbeddingsDefaulting(concepts, data, n - 1)
         IN IF HasKey(data, concepts[n]) THEN Append(rest, <<concepts[n], Get(data, concepts[n])>>)
            ELSE Append(rest, <<concepts[n], <<0, 0>>>>)

\* human_embeddings / ai_embeddings: the concepts found in the .npz data, in
\* concept order, dual_layout.py 287-310
RECURSIVE LoadEmbeddings(_, _, _)
LoadEmbeddings(concepts, data, n) ==
    IF n = 0 THEN <<>>
    ELSE LET rest == LoadEmbeddings(concepts, data, n - 1)
         IN IF HasKey(data, concepts[n]) THEN Append(rest, <<concepts[n], Get(data, concepts[n])>>)
            ELSE rest

\* a NULL human_distance
Null == 0 - 1

\* the relationships table: a chain over the first m concepts, human_distance in
\* tenths; the last row's human_distance is NULL when lastNull
RelationshipRows(m, lastNull) ==
    [i \in 1..(IF m >= 2 THEN m - 1 ELSE 0) |->
        <<i, i + 1, IF lastNull /\ i = m - 1 THEN Null ELSE (i % 2) * 10>>]

\* SELECT ... WHERE r.human_distance IS NOT NULL, dual_layout.py 319-326
RECURSIVE SharedRelationships(_, _)
SharedRelationships(rows, n) ==
    IF n = 0 THEN <<>>
    ELSE IF rows[n][3] /= Null THEN Append(SharedRelationships(rows, n - 1), rows[n])
         ELSE SharedRelationships(rows, n - 1)

\* SELECT AVG(r.human_distance), COUNT(*) ... WHERE c1.name = ? OR c2.name = ?
\* followed by float(avg_dist or 0.5), int(conn_count or 0), dual_layout.py 409-429.
\* The average is kept as the pair (sum of tenths, number of non-NULL rows).
Aggregate(rows, concept) ==
    LET mine == {i \in 1..Len(rows) : rows[i][1] = concept \/ rows[i][2] = concept}
        valued == {i \in mine : rows[i][3] /= Null}
        RECURSIVE Sum(_)
        Sum(S) == IF S = {} THEN 0 ELSE LET i == CHOOSE x \in S : TRUE IN rows[i][3] + Sum(S \ {i})
    IN [avgDistance |-> IF valued = {} \/ Sum(valued) = 0 THEN <<5, 10>>
                        ELSE <<Sum(valued), 10 * Cardinality(valued)>>,
        connections |-> Cardinality(mine)]

\* mutation: a missing key gives the origin, whatever the default
GetOrOrigin(d, key, default) == IF HasKey(d, key) THEN Get(d, key) ELSE <<0, 0, 0>>

\* dict.get(key, default)
GetOr(d, key, default) == IF HasKey(d, key) THEN Get(d, key) ELSE default

\* np.linalg.norm(h - a), kept as its square
Drift(h_pos, a_pos) == NormSq(VecSub(h_pos, a_pos))

\* for concept in sorted(aligned_human_sphere.keys())
NodeConcepts(aligned_human_sphere, aligned_human_organic) ==
    SortedSeq(KeySet(aligned_human_sphere))

\* one node record, dual_layout.py 398-430; agg is what the aggregate query of
\* lines 409-416 gave for the concept
NodeWith(concept, sphere, organic, agg) ==
    LET h_pos_sphere == Get(sphere.aligned_human, concept)
        a_pos_sphere == Get(sphere.aligned_ai, concept)
        h_pos_organic == GetOr(organic.aligned_human, concept, h_pos_sphere)
        a_pos_organic == GetOr(organic.aligned_ai, concept, a_pos_sphere)
    IN [id |-> concept, name |-> concept,
        pos_human |-> h_pos_sphere, pos_ai |-> a_pos_sphere,
        pos_human_organic |-> h_pos_organic, pos_ai_organic |-> a_pos_organic,
        drift |-> Drift(h_pos_organic, a_pos_organic),
        drift_sphere |-> Drift(h_pos_sphere, a_pos_sphere),
        drift_organic |-> Drift(h_pos_organic, a_pos_organic),
        avgDistance |-> agg.avgDistance, connections |-> agg.connections]

NodeOf(concept, sphere, organic, rows) ==
    NodeWith(concept, sphere, organic, Aggregate(rows, concept))

\* the node loop, dual_layout.py 397-430, for given answers of the aggregate query
BuildNodesWith(sphere, organic, aggregates) ==
    LET cs == NodeConcepts(sphere.aligned_human, organic.aligned_human)
    IN [i \in 1..Len(cs) |-> NodeWith(cs[i], sphere, organic, aggregates[cs[i]])]

\* the node loop on the relationships table
BuildNodes(sphere, organic, rows) ==
    LET cs == NodeConcepts(sphere.aligned_human, organic.aligned_human)
    IN [i \in 1..Len(cs) |-> NodeOf(cs[i], sphere, organic, rows)]

\* one step of the stable descending sort: x goes after every element whose key
\* is not smaller
RECURSIVE InsertByDrift(_, _)
InsertByDrift(sorted, x) ==
    IF sorted = <<>> THEN <<x>>
    ELSE IF sorted[Len(sorted)].sort_key < x.sort_key
         THEN Append(InsertByDrift(SubSeq(sorted, 1, Len(sorted) - 1), x), sorted[Len(sorted)])
         ELSE Append(sorted, x)

RECURSIVE SortDescUpTo(_, _)
SortDescUpTo(keyed, n) ==
    IF n = 0 THEN <<>> ELSE InsertByDrift(SortDescUpTo(keyed, n - 1), keyed[n])

\* mutation: reverse=True is missing, the list comes out ascending
RECURSIVE SortedByKeyAscending(_)
SortedByKeyAscending(keyed) ==
    IF keyed = <<>> THEN <<>>
    ELSE LET i == CHOOSE x \in 1..Len(keyed) :
                     /\ \A y \in 1..Len(keyed) : keyed[x].sort_key <= keyed[y].sort_key
                     /\ \A y \in 1..(x - 1) : keyed[y].sort_key /= keyed[x].sort_key
         IN <<keyed[i]>> \o SortedByKeyAscending(SubSeq(keyed, 1, i - 1) \o SubSeq(keyed, i + 1, Len(keyed)))

\* list.sort(key=..., reverse=True) on (sort_key, node) pairs: stable, descending
SortedByKeyDescending(keyed) == SortDescUpTo(keyed, Len(keyed))

\* mutation: the nodes are ordered by their number of connections
SortByConnections(nodes) ==
    LET keyed == [i \in 1..Len(nodes) |-> [sort_key |-> nodes[i].connections, node |-> nodes[i]]]
        sorted == SortedByKeyDescending(keyed)
    IN [i \in 1..Len(sorted) |-> sorted[i].node]

\* nodes.sort(key=lambda n: n["drift_organic"], reverse=True), dual_layout.py 433
SortByOrganicDrift(nodes) ==
    LET keyed == [i \in 1..Len(nodes) |-> [sort_key |-> nodes[i].drift_organic, node |-> nodes[i]]]
        sorted == SortedByKeyDescending(keyed)
    IN [i \in 1..Len(sorted) |-> sorted[i].node]

\* the .npz file that stores, per concept of 1..n, what kind[c] says: nothing,
\* the zero vector or the concept's vector
RECURSIVE StoredData(_, _)
StoredData(kind, n) ==
    IF n = 0 THEN <<>>
    ELSE LET rest == StoredData(kind, n - 1)
         IN CASE kind[n] = "absent" -> rest
              [] kind[n] = "zero" -> Append(rest, <<n, <<0, 0>>>>)
              [] OTHER -> Append(rest, <<n, DualVec(n)>>)

StoredKinds == {"absent", "zero", "vector"}

\* what a file stores per concept of 1..n: lowKind for the first lowCount
\* concepts, highKind for the last highCount, the concept's vector in between
StoredKindsBy(n, lowKind, lowCount, highKind, highCount) ==
    [c \in 1..n |-> IF c <= lowCount THEN lowKind
                    ELSE IF c > n - highCount THEN highKind
                    ELSE "vector"]

\* the Python process in which the orchestrators are called: the number of the
\* call being made, and the finished first call (its locals and what it returned)
NoRun == [pc |-> "none"]

SessionIdle == [run |-> 1, first |-> NoRun]

\* mutation: the library calls are not seeded
Unseeded(first_answer, answer) == TRUE

\* spring_layout(..., seed=42 / 43), umap.UMAP(..., random_state=42 / 43) and
\* np.linalg.svd are deterministic: called again on the arguments of the first
\* call they give the answer of the first call
SameAnswer(first_answer, answer) == answer = first_answer

\* the keyword arguments of the four calls of get_graph_layout_3d, spring_k in
\* tenths: dual_layout.py 330-336, 339-345, 367-373, 376-382
HumanSphereArgs == [spring_k |-> 20, iterations |-> 150, seed |-> 42]

AiSphereArgs == [spring_k |-> 20, iterations |-> 150, seed |-> 43]

HumanOrganicArgs == [spring_k |-> 20, iterations |-> 200, seed |-> 42]

\* mutation: the AI organic layout gets the iterations of the sphere call
AiOrganicArgsOfSphere == [spring_k |-> 20, iterations |-> 150, seed |-> 43]

AiOrganicArgs == [spring_k |-> 20, iterations |-> 200, seed |-> 43]

\* knn_k: the k of the two calls of compute_knn_relationships; sphere_args and
\* organic_args: the arguments of the layout calls made so far (Human, AI)
DualIdle == [pc |-> "idle", conn |-> "none", rows |-> <<>>, minilm_data |-> <<>>, qwen_data |-> <<>>,
             knn_k |-> <<>>, sphere_args |-> <<>>, organic_args |-> <<>>,
             concepts |-> <<>>, human_embeddings |-> <<>>, ai_embeddings |-> <<>>,
             human_relationships |-> <<>>, ai_relationships |-> <<>>,
             placement |-> <<0, 0>>, sphere |-> NoResult, organic |-> NoResult,
             built |-> <<>>, nodes |-> <<>>, error |-> "none"]

\* dual_layout.py 272-313: connect, read the concept names, load both collections
DualLoad ==
    /\ dual.pc = "start"
    /\ LET concepts == SortedSeq(1..DualIds)
       IN dual' = [dual EXCEPT !.pc = "loaded", !.conn = "open", !.concepts = concepts,
                     !.human_embeddings = LoadEmbeddings(concepts, dual.minilm_data, Len(concepts)),
                     !.ai_embeddings = LoadEmbeddings(concepts, dual.qwen_data, Len(concepts))]
    /\ UNCHANGED <<knn, layout, align, amplify, manifold, server, session, viewer, scanner, loader>>

\* dual_layout.py 318-351: both layouts of the shared graph (seeds 42 and 43),
\* then the constrained alignment; its ValueError ends the run
DualSphere ==
    /\ dual.pc = "loaded"
    /\ \E p42, p43 \in 0..(NumPlacements - 1) :
          LET shared_relationships == SharedRelationships(dual.rows, Len(dual.rows))
              human_sphere == get_graph_layout_3d(dual.human_embeddings, shared_relationships, p42)
              ai_sphere == get_graph_layout_3d(dual.ai_embeddings, shared_relationships, p43)
          IN \E r \in RotationsOf(human_sphere, ai_sphere) :
             LET res == align_layouts_procrustes(human_sphere, ai_sphere, FALSE, r)
             IN /\ (/\ session.run = 2
                    /\ session.first.sphere.error = "none"
                    /\ res.error = "none"
                    /\ session.first.human_embeddings = dual.human_embeddings
                    /\ session.first.ai_embeddings = dual.ai_embeddings
                    /\ session.first.rows = dual.rows)
                      => SameAnswer(<<session.first.placement, session.first.sphere.R>>,
                                    <<<<p42, p43>>, r>>)
                /\ dual' = [dual EXCEPT !.pc = IF res.error = "none" THEN "sphere_done" ELSE "raised",
                                  !.error = res.error,
                                  !.sphere_args = <<HumanSphereArgs, AiSphereArgs>>,
                                  !.placement = IF res.error = "none" THEN <<p42, p43>> ELSE <<0, 0>>,
                                  !.sphere = res]
    /\ UNCHANGED <<knn, layout, align, amplify, manifold, server, session, viewer, scanner, loader>>

\* dual_layout.py 356-364: one k-NN graph per embedding space
DualKnn ==
    /\ dual.pc = "sphere_done"
    /\ dual' = [dual EXCEPT !.pc = "knn_done", !.knn_k = <<OrganicK, OrganicK>>,
                  !.human_relationships = compute_knn_relationships(dual.human_embeddings, OrganicK),
                  !.ai_relationships = compute_knn_relationships(dual.ai_embeddings, OrganicK)]
    /\ UNCHANGED <<knn, layout, align, amplify, manifold, server, session, viewer, scanner, loader>>

\* dual_layout.py 366-389: one layout per k-NN graph (seeds 42 and 43 again),
\* then the scale-preserving alignment; its ValueError ends the run
DualOrganic ==
    /\ dual.pc = "knn_done"
    /\ LET human_organic == get_graph_layout_3d(dual.human_embeddings, dual.human_relationships,
                                                dual.placement[1])
           ai_organic == get_graph_layout_3d(dual.ai_embeddings, dual.ai_relationships,
                                             dual.placement[2])
       IN \E r \in RotationsOf(human_organic, ai_organic) :
             LET res == align_layouts_procrustes(human_organic, ai_organic, TRUE, r)
             IN /\ (/\ session.run = 2
                    /\ session.first.organic.error = "none"
                    /\ res.error = "none"
                    /\ session.first.organic.human_matrix = res.human_matrix
                    /\ session.first.organic.ai_matrix = res.ai_matrix)
                      => SameAnswer(session.first.organic.R, r)
                /\ dual' = [dual EXCEPT !.pc = IF res.error = "none" THEN "organic_done" ELSE "raised",
                                  !.error = res.error,
                                  !.organic_args = <<HumanOrganicArgs, AiOrganicArgs>>,
                                  !.organic = res]
    /\ UNCHANGED <<knn, layout, align, amplify, manifold, server, session, viewer, scanner, loader>>

\* generate_dual_layout never calls conn.close().  What becomes of the
\* connection when the function returns is left to the interpreter: a
\* reference-counting one finalizes the object (which closes the database
\* handle) as the frame is torn down, another one leaves it open until some
\* later collection
ConnAfterReturn == {"open", "finalized"}

\* dual_layout.py 394-459: build the nodes, sort them, return the result
DualReturn ==
    /\ dual.pc = "organic_done"
    /\ \E conn \in ConnAfterReturn :
          LET built == BuildNodes(dual.sphere, dual.organic, dual.rows)
          IN dual' = [dual EXCEPT !.pc = "returned", !.built = built,
                                  !.nodes = SortByOrganicDrift(built), !.conn = conn]
    /\ UNCHANGED <<knn, layout, align, amplify, manifold, server, session, viewer, scanner, loader>>

-----------------------------------------------------------------------------
(* align_umap_coords and generate_umap_layout: dual_layout_umap.py 22-229 *)

\* align_umap_coords, dual_layout_umap.py 22-63: both matrices centered, the AI
\* one rotated, both multiplied by scale_factor = 3.75 / np.std(human_centered).
\* Rows are kept in units of scale_factor / N; a zero std makes the factor
\* infinite and every scaled entry nan.  There is no test of the number of rows.
align_umap_coords(human_coords, ai_coords, concept_names, r) ==
    LET human_centered == Centered(human_coords)
        ai_rotated == RotateRows(Centered(ai_coords), r)
        std_sq == StdSq(StdArgument(human_centered, ai_rotated))
        finite == std_sq /= 0
        human_scaled == IF finite THEN human_centered ELSE [i \in 1..Len(human_coords) |-> NonFinite]
        ai_scaled == IF finite THEN ai_rotated ELSE [i \in 1..Len(human_coords) |-> NonFinite]
    IN [error |-> "none", R |-> r, std_sq |-> std_sq, finite |-> finite,
        aligned_human |-> DictOfRows(concept_names, human_scaled),
        aligned_ai |-> DictOfRows(concept_names, ai_scaled),
        disparity |-> [form |-> "sqrt(sum_sq / n)",
                       sum_sq |-> SumSqResiduals(human_centered, ai_rotated, Len(human_coords)),
                       n |-> Len(concept_names)]]

\* the loop of dual_layout_umap.py 119-135: the concepts stored in both files
RECURSIVE ValidConcepts(_, _, _, _)
ValidConcepts(concepts, minilm_data, qwen_data, n) ==
    IF n = 0 THEN <<>>
    ELSE LET rest == ValidConcepts(concepts, minilm_data, qwen_data, n - 1)
         IN IF HasKey(minilm_data, concepts[n]) /\ HasKey(qwen_data, concepts[n])
            THEN Append(rest, concepts[n])
            ELSE rest

\* mutation: the rows are stacked in the reverse order
EmbeddingMatrixReversed(data, valid_concepts) ==
    [i \in 1..Len(valid_concepts) |-> Get(data, valid_concepts[Len(valid_concepts) + 1 - i])]

\* np.array([...]) of the embeddings of the valid concepts
EmbeddingMatrix(data, valid_concepts) ==
    [i \in 1..Len(valid_concepts) |-> Get(data, valid_concepts[i])]

\* umap.UMAP(...).fit_transform(matrix): the reduction is not computed here.  It
\* returns one position per row, distinct rows at distinct positions; p names the
\* placement returned.
FitTransform(matrix, p) == [i \in 1..Len(matrix) |-> GridPt(i - 1 + p)]

\* np.linalg.norm(h_pos - a_pos) of two scaled rows, kept as its square; nan
\* when the rows are not finite
UmapDrift(h_pos, a_pos, finite) ==
    IF finite THEN NormSq(VecSub(h_pos, a_pos)) ELSE "nan"

\* one node record, dual_layout_umap.py 180-200; agg is what the aggregate query
\* of lines 182-189 gave for the concept
UmapNodeWith(concept, aligned, agg) ==
    LET h_pos == Get(aligned.aligned_human, concept)
        a_pos == Get(aligned.aligned_ai, concept)
    IN [id |-> concept, name |-> concept,
        pos_human_umap |-> h_pos, pos_ai_umap |-> a_pos,
        drift_umap |-> UmapDrift(h_pos, a_pos, aligned.finite),
        avgDistance |-> agg.avgDistance, connections |-> agg.connections]

UmapNodeOf(concept, aligned, rows) == UmapNodeWith(concept, aligned, Aggregate(rows, concept))

\* the node loop over valid_concepts for given answers of the aggregate query
BuildUmapNodesWith(valid_concepts, aligned, aggregates) ==
    [i \in 1..Len(valid_concepts) |->
        UmapNodeWith(valid_concepts[i], aligned, aggregates[valid_concepts[i]])]

\* the node loop over valid_concepts, dual_layout_umap.py 177-200
BuildUmapNodes(valid_concepts, aligned, rows) ==
    [i \in 1..Len(valid_concepts) |-> UmapNodeOf(valid_concepts[i], aligned, rows)]

\* nodes.sort(key=lambda n: n["drift_umap"], reverse=True), dual_layout_umap.py 203
SortByUmapDrift(nodes) ==
    LET keyed == [i \in 1..Len(nodes) |-> [sort_key |-> nodes[i].drift_umap, node |-> nodes[i]]]
        sorted == SortedByKeyDescending(keyed)
    IN [i \in 1..Len(sorted) |-> sorted[i].node]

NoUmapResult == [error |-> "none", R |-> 0, std_sq |-> 0, finite |-> TRUE, aligned_human |-> <<>>, aligned_ai |-> <<>>,
                 disparity |-> [form |-> "none", sum_sq |-> 0, n |-> 0]]

ManifoldIdle == [pc |-> "idle", conn |-> "none", rows |-> <<>>, minilm_data |-> <<>>,
                 qwen_data |-> <<>>, concepts |-> <<>>, valid_concepts |-> <<>>,
                 human_matrix |-> <<>>, ai_matrix |-> <<>>, aligned |-> NoUmapResult,
                 placement |-> <<0, 0>>, built |-> <<>>, nodes |-> <<>>, error |-> "none"]

\* dual_layout_umap.py 96-138: connect, read the concept names, load both files,
\* keep the concepts stored in both
ManifoldLoad ==
    /\ manifold.pc = "start"
    /\ LET concepts == SortedSeq(1..DualIds)
           valid_concepts == ValidConcepts(concepts, manifold.minilm_data, manifold.qwen_data,
                                           Len(concepts))
       IN manifold' = [manifold EXCEPT !.pc = "loaded", !.conn = "open", !.concepts = concepts,
                         !.valid_concepts = valid_concepts,
                         !.human_matrix = EmbeddingMatrix(manifold.minilm_data, valid_concepts),
                         !.ai_matrix = EmbeddingMatrix(manifold.qwen_data, valid_concepts)]
    /\ UNCHANGED <<knn, layout, align, amplify, dual, server, session, viewer, scanner, loader>>

\* dual_layout_umap.py 146-171: both reductions (random_state 42 and 43), then
\* the alignment.  The library may reject an empty matrix with ValueError or
\* return no rows for it.
ManifoldAlign ==
    /\ manifold.pc = "loaded"
    /\ LET again == /\ session.run = 2
                     /\ session.first.human_matrix = manifold.human_matrix
                     /\ session.first.ai_matrix = manifold.ai_matrix
       IN \/ /\ Len(manifold.valid_concepts) = 0
             /\ again => SameAnswer(session.first.error, "ValueError")
             /\ manifold' = [manifold EXCEPT !.pc = "raised", !.error = "ValueError"]
          \/ /\ \E p42, p43 \in 0..(NumPlacements - 1) :
                   LET human_coords == FitTransform(manifold.human_matrix, p42)
                       ai_coords == FitTransform(manifold.ai_matrix, p43)
                   IN \E r \in SvdRotations(Centered(human_coords), Centered(ai_coords)) :
                      /\ again => SameAnswer(<<session.first.error, session.first.placement,
                                                session.first.aligned.R>>,
                                              <<"none", <<p42, p43>>, r>>)
                      /\ manifold' = [manifold EXCEPT !.pc = "aligned",
                                        !.placement = <<p42, p43>>,
                                        !.aligned = align_umap_coords(human_coords, ai_coords,
                                                                      manifold.valid_concepts, r)]
    /\ UNCHANGED <<knn, layout, align, amplify, dual, server, session, viewer, scanner, loader>>

\* dual_layout_umap.py 174-229: build the nodes, sort them, close the
\* connection, return the result
ManifoldReturn ==
    /\ manifold.pc = "aligned"
    /\ LET built == BuildUmapNodes(manifold.valid_concepts, manifold.aligned, manifold.rows)
       IN manifold' = [manifold EXCEPT !.pc = "returned", !.built = built,
                                       !.nodes = SortByUmapDrift(built), !.conn = "closed"]
    /\ UNCHANGED <<knn, layout, align, amplify, dual, server, session, viewer, scanner, loader>>

-----------------------------------------------------------------------------
(* The viewer service: viewer_server.py *)

NoResponse == [status |-> 0, nodes |-> <<>>, detail |-> "none"]

\* the process before it is launched.  umap_installed: the umap library can be
\* imported; handling: the request whose handler is running (the handlers are
\* coroutines without an await, so they run one at a time)
ServerIdle == [state |-> "stopped", umap_installed |-> TRUE, handling |-> "none",
               dual_response |-> NoResponse, manifold_response |-> NoResponse]

\* viewer_server.py 5-36 and 376-381: the module is executed.  import umap at
\* line 12 stands outside any try: without the library the process ends with
\* ImportError before the application object exists.
ServerStart ==
    /\ server.state = "stopped"
    /\ server' = [server EXCEPT !.state = IF server.umap_installed THEN "running"
                                         ELSE "import_error"]
    /\ UNCHANGED <<knn, layout, align, amplify, dual, manifold, session, viewer, scanner, loader>>

\* GET /api/dual-galaxy-data, viewer_server.py 314-322: the handler imports
\* dual_layout and calls generate_dual_layout()
GetDualGalaxyDataCall ==
    /\ server.state = "running"
    /\ server.handling = "none"
    /\ dual.pc = "idle"
    /\ server' = [server EXCEPT !.handling = "dual"]
    /\ dual' = [dual EXCEPT !.pc = "start"]
    /\ UNCHANGED <<knn, layout, align, amplify, manifold, session, viewer, scanner, loader>>

\* viewer_server.py 323-328: the result is returned as it is; any Exception
\* becomes HTTP 500 with the message as detail
GetDualGalaxyDataReply ==
    /\ server.handling = "dual"
    /\ dual.pc \in {"returned", "raised"}
    /\ server' = [server EXCEPT !.handling = "none",
                    !.dual_response =
                        IF dual.pc = "returned"
                        THEN [status |-> 200, nodes |-> dual.nodes, detail |-> "none"]
                        ELSE [status |-> 500, nodes |-> <<>>, detail |-> dual.error]]
    /\ UNCHANGED <<knn, layout, align, amplify, dual, manifold, session, viewer, scanner, loader>>

\* GET /api/manifold-galaxy-data, viewer_server.py 331-339: the handler imports
\* dual_layout_umap, whose lines 15-19 call sys.exit(1) when umap cannot be
\* imported (SystemExit is not an Exception, the handler does not catch it),
\* and calls generate_umap_layout()
GetManifoldGalaxyDataCall ==
    /\ server.state = "running"
    /\ server.handling = "none"
    /\ manifold.pc = "idle"
    /\ IF server.umap_installed
       THEN /\ server' = [server EXCEPT !.handling = "manifold"]
            /\ manifold' = [manifold EXCEPT !.pc = "start"]
       ELSE /\ server' = [server EXCEPT !.state = "exited"]
            /\ UNCHANGED manifold
    /\ UNCHANGED <<knn, layout, align, amplify, dual, session, viewer, scanner, loader>>

\* viewer_server.py 340-345
GetManifoldGalaxyDataReply ==
    /\ server.handling = "manifold"
    /\ manifold.pc \in {"returned", "raised"}
    /\ server' = [server EXCEPT !.handling = "none",
                    !.manifold_response =
                        IF manifold.pc = "returned"
                        THEN [status |-> 200, nodes |-> manifold.nodes, detail |-> "none"]
                        ELSE [status |-> 500, nodes |-> <<>>, detail |-> manifold.error]]
    /\ UNCHANGED <<knn, layout, align, amplify, dual, manifold, session, viewer, scanner, loader>>

-----------------------------------------------------------------------------
(* The viewer's projection cache: viewer_server.py 36-146 *)

\* the relationships table read by the viewer (human_distance is NOT NULL,
\* db/relational.py 41-56): a chain over the first m of the concepts
\* 1..ViewerIds, distances in tenths, the last row's distance being store.last
ViewerRows(store) ==
    [i \in 1..(IF store.m >= 2 THEN store.m - 1 ELSE 0) |->
        <<i, i + 1, IF i = store.m - 1 THEN store.last ELSE (i % 2) * 10>>]

\* weight = 1.0 / (1.0 + float(row[2])), kept as the term over the exact distance
ViewerWeight(distance) == [inv_of |-> distance, offset_tenths |-> 10]

\* the loop of viewer_server.py 55-59
RECURSIVE ViewerGraph(_, _)
ViewerGraph(rows, n) ==
    IF n = 0 THEN EmptyGraph
    ELSE AddEdge(ViewerGraph(rows, n - 1), rows[n][1], rows[n][2], ViewerWeight(rows[n][3]))

\* the Python value None, and a value that is a layout dict
None == [is_none |-> TRUE, layout |-> <<>>]

Some(coords_dict) == [is_none |-> FALSE, layout |-> coords_dict]

\* get_graph_layout_3d of viewer_server.py 39-81: any exception (the database
\* cannot be opened or read, networkx is missing) is turned into None by the
\* except clause; an empty graph gives None; otherwise the spring layout
\* (placement p) times 10
ViewerGraphLayout(store, p) ==
    LET rows == ViewerRows(store)
        G == ViewerGraph(rows, Len(rows))
    IN IF ~store.available THEN None
       ELSE IF Len(G.nodes) = 0 THEN None
       ELSE Some(ScaleCoords(SpringLayoutAt(G, p)))

\* the cache file: absent, or opened for writing and not yet complete, or
\* holding the pickle of a layout
NoFile == [exists |-> FALSE, complete |-> FALSE, layout |-> <<>>]

\* a finished call of calculate_3d_projection: whether the cache file existed
\* when it was made, whether it read the relationship store, how it ended
NoCall == [had_file |-> FALSE, read_store |-> FALSE, outcome |-> "none", result |-> None]

NoReply == [status |-> 0, positions |-> <<>>, projection |-> None]

\* the viewer process and its surroundings.  up: the process runs; pc: where the
\* running call of calculate_3d_projection stands; caller: who made it;
\* projection_cache: the global _projection_cache; served: the last reply of
\* GET /api/galaxy
ViewerIdle == [up |-> FALSE, pc |-> "idle", caller |-> "none",
               store |-> [m |-> 0, last |-> 0, available |-> TRUE], cache_file |-> NoFile,
               projection_cache |-> None, last |-> NoCall, served |-> NoReply]

\* get_galaxy_data from line 145 on: HTTP 500 without a projection; an
\* unhandled error when the database cannot be read; else one node per
\* concept, positioned by _projection_cache.get(name, [0, 0, 0])
Reply(v) ==
    [v EXCEPT !.served =
        IF v.projection_cache.is_none \/ ~v.store.available
        THEN [status |-> 500, positions |-> <<>>, projection |-> v.projection_cache]
        ELSE [status |-> 200,
              positions |-> [c \in 1..ViewerIds |->
                                GetOr(v.projection_cache.layout, c, <<0, 0, 0>>)],
              projection |-> v.projection_cache]]

\* calculate_3d_projection returns result to its caller: startup_event drops
\* it, get_galaxy_data assigns it to _projection_cache (line 143) and goes on
Return(v, result, had_file, read_store) ==
    LET w == [v EXCEPT !.pc = "idle", !.caller = "none",
                       !.last = [had_file |-> had_file, read_store |-> read_store,
                                 outcome |-> "returned", result |-> result]]
    IN IF v.caller = "galaxy" THEN Reply([w EXCEPT !.projection_cache = result]) ELSE w

\* pickle.load raises on a file that does not hold a whole pickle (EOFError,
\* UnpicklingError): the application does not come up when this happens in
\* startup_event, the request ends with HTTP 500 in get_galaxy_data
Raise(v) ==
    LET last == [had_file |-> TRUE, read_store |-> FALSE, outcome |-> "raised", result |-> None]
    IN IF v.caller = "startup"
       THEN [v EXCEPT !.up = FALSE, !.pc = "idle", !.caller = "none", !.last = last]
       ELSE [v EXCEPT !.pc = "idle", !.caller = "none", !.last = last,
                      !.served = [status |-> 500, positions |-> <<>>, projection |-> None]]

\* mutation: the test of the cache file is missing, every call recomputes
AlwaysRecompute(v) == [v EXCEPT !.pc = "computing"]

\* calculate_3d_projection, lines 86-95: an existing cache file is loaded and
\* returned; without one the computation starts
CheckCache(v) ==
    IF v.cache_file.exists
    THEN IF v.cache_file.complete
         THEN Return([v EXCEPT !.projection_cache = Some(v.cache_file.layout)],
                     Some(v.cache_file.layout), TRUE, FALSE)
         ELSE Raise(v)
    ELSE [v EXCEPT !.pc = "computing"]

\* viewer_server.py 119-122: the process is launched and startup_event calls
\* calculate_3d_projection
StartupEvent ==
    /\ ~viewer.up
    /\ viewer' = CheckCache([viewer EXCEPT !.up = TRUE, !.caller = "startup"])
    /\ UNCHANGED <<knn, layout, align, amplify, dual, manifold, server, session, scanner, loader>>

\* GET /api/galaxy, viewer_server.py 135-211: the projection is computed only
\* when _projection_cache is None
GetGalaxyData ==
    /\ viewer.up
    /\ viewer.pc = "idle"
    /\ viewer' = IF viewer.projection_cache.is_none
                 THEN CheckCache([viewer EXCEPT !.caller = "galaxy"])
                 ELSE Reply(viewer)
    /\ UNCHANGED <<knn, layout, align, amplify, dual, manifold, server, session, scanner, loader>>

\* calculate_3d_projection, lines 98-105: the layout is computed from the store
\* and assigned to _projection_cache; None is returned as None; otherwise
\* open(CACHE_PATH, 'wb') creates the file
ProjectionLayout ==
    /\ viewer.pc = "computing"
    /\ \E p \in 0..(NumPlacements - 1) :
          LET res == ViewerGraphLayout(viewer.store, p)
              v == [viewer EXCEPT !.projection_cache = res]
          IN viewer' = IF res.is_none
                       THEN Return(v, None, FALSE, TRUE)
                       ELSE [v EXCEPT !.pc = "writing",
                                      !.cache_file = [exists |-> TRUE, complete |-> FALSE,
                                                      layout |-> res.layout]]
    /\ UNCHANGED <<knn, layout, align, amplify, dual, manifold, server, session, scanner, loader>>

\* calculate_3d_projection, lines 106-109: pickle.dump completes, the file is
\* closed, the layout is returned
ProjectionDump ==
    /\ viewer.pc = "writing"
    /\ viewer' = Return([viewer EXCEPT !.cache_file.complete = TRUE],
                        viewer.projection_cache, FALSE, TRUE)
    /\ UNCHANGED <<knn, layout, align, amplify, dual, manifold, server, session, scanner, loader>>

\* the crawler inserts a relationship with a new concept (db/relational.py
\* add_relationship)
StoreInsert ==
    /\ viewer.store.m < ViewerIds
    /\ viewer' = [viewer EXCEPT !.store.m = @ + 1]
    /\ UNCHANGED <<knn, layout, align, amplify, dual, manifold, server, session, scanner, loader>>

\* add_relationship on an existing pair updates its human_distance
\* (db/relational.py 129-136)
StoreUpdate ==
    /\ viewer.store.m >= 2
    /\ viewer' = [viewer EXCEPT !.store.last = 10 - @]
    /\ UNCHANGED <<knn, layout, align, amplify, dual, manifold, server, session, scanner, loader>>

\* the database file becomes unreadable (moved, locked), or readable again
StoreOutage ==
    /\ viewer' = [viewer EXCEPT !.store.available = ~@]
    /\ UNCHANGED <<knn, layout, align, amplify, dual, manifold, server, session, scanner, loader>>

\* the cache file is removed by hand, while no call is writing it
CacheRemove ==
    /\ viewer.cache_file.exists
    /\ viewer.pc /= "writing"
    /\ viewer' = [viewer EXCEPT !.cache_file = NoFile]
    /\ UNCHANGED <<knn, layout, align, amplify, dual, manifold, server, session, scanner, loader>>

\* the process is shut down between two requests; its globals are gone
Shutdown ==
    /\ viewer.up
    /\ viewer.pc = "idle"
    /\ viewer' = [viewer EXCEPT !.up = FALSE, !.projection_cache = None]
    /\ UNCHANGED <<knn, layout, align, amplify, dual, manifold, server, session, scanner, loader>>

\* the process is killed while calculate_3d_projection runs: its globals are
\* gone, the file system keeps what had been written
Interrupt ==
    /\ viewer.up
    /\ viewer.pc \in {"computing", "writing"}
    /\ viewer' = [viewer EXCEPT !.up = FALSE, !.pc = "idle", !.caller = "none",
                                !.projection_cache = None]
    /\ UNCHANGED <<knn, layout, align, amplify, dual, manifold, server, session, scanner, loader>>

-----------------------------------------------------------------------------
(* LSCPScanner.batch_scan: crawler/scanner.py 135-174 *)

\* what one call of scan_concept does: it returns its result dict or raises
ScanOutcomes == {"ok", "Exception"}

\* the dict scan_concept returns for a concept (its "concept" entry)
ScanResult(concept) == [concept |-> concept]

\* mutation: the try statement has no handler for the exception
Uncaught(outcome) == FALSE

\* except Exception as e, scanner.py 149
Caught(outcome) == outcome = "Exception"

\* scanner: the call of batch_scan.  outcomes[j] is what the j-th call of
\* scan_concept will do; i counts the finished iterations; attempts lists the
\* concepts scan_concept was called with
ScannerIdle == [pc |-> "idle", concepts |-> <<>>, outcomes |-> <<>>, i |-> 0,
                attempts |-> <<>>, results |-> <<>>, failed |-> <<>>, returned |-> <<>>]

\* one iteration of the loop of scanner.py 143-160
BatchScanIteration ==
    /\ scanner.pc = "loop"
    /\ scanner.i < Len(scanner.concepts)
    /\ LET concept == scanner.concepts[scanner.i + 1]
           outcome == scanner.outcomes[scanner.i + 1]
           tried == [scanner EXCEPT !.i = @ + 1, !.attempts = Append(@, concept)]
       IN scanner' = IF outcome = "ok"
                     THEN [tried EXCEPT !.results = Append(@, ScanResult(concept))]
                     ELSE IF Caught(outcome)
                     THEN [tried EXCEPT !.failed = Append(@, [concept |-> concept,
                                                               error |-> outcome])]
                     ELSE [tried EXCEPT !.pc = "propagated"]
    /\ UNCHANGED <<knn, layout, align, amplify, dual, manifold, server, session, viewer, loader>>

\* scanner.py 162-174: the summary is printed and results is returned
BatchScanReturn ==
    /\ scanner.pc = "loop"
    /\ scanner.i = Len(scanner.concepts)
    /\ scanner' = [scanner EXCEPT !.pc = "returned", !.returned = scanner.results]
    /\ UNCHANGED <<knn, layout, align, amplify, dual, manifold, server, session, viewer, loader>>

-----------------------------------------------------------------------------
(* Loading the stored arrays: dual_layout.py 287-310, dual_layout_umap.py 119-135 *)

\* a numpy array of rank 1 or 2: its shape and its buffer, which holds the
\* components row after row
Array1(data) == [shape |-> <<Len(data)>>, data |-> data]

\* emb[i, j] of an array of rank 2
At(emb, i, j) == emb.data[(i - 1) * emb.shape[2] + j]

\* emb.flatten() of an array of rank 2: the components in row-major order
Flatten(emb) ==
    Array1([k \in 1..(emb.shape[1] * emb.shape[2]) |->
              At(emb, ((k - 1) \div emb.shape[2]) + 1, ((k - 1) % emb.shape[2]) + 1)])

\* mutation: the last 5120 components are kept
KeepLast(emb) ==
    Array1(SubSeq(emb.data, Len(emb.data) - AiDim + 1, Len(emb.data)))

\* emb[:5120]
KeepFirst(emb) == Array1(SubSeq(emb.data, 1, Min(AiDim, Len(emb.data))))

\* dual_layout.py 290-294, dual_layout_umap.py 122-124
LoadedHuman(emb) == IF Len(emb.shape) > 1 THEN Flatten(emb) ELSE emb

\* dual_layout.py 303-310, dual_layout_umap.py 127-131
LoadedAi(emb) ==
    LET flat == IF Len(emb.shape) > 1 THEN Flatten(emb) ELSE emb
    IN IF flat.shape[1] > AiDim THEN KeepFirst(flat) ELSE flat

\* the loops of dual_layout.py 288-294 and 301-310 on arrays: one entry per
\* concept the file holds, in concept order
RECURSIVE LoadHumanArrays(_, _, _)
LoadHumanArrays(concepts, data, n) ==
    IF n = 0 THEN <<>>
    ELSE LET rest == LoadHumanArrays(concepts, data, n - 1)
         IN IF HasKey(data, concepts[n])
            THEN Append(rest, <<concepts[n], LoadedHuman(Get(data, concepts[n]))>>)
            ELSE rest

RECURSIVE LoadAiArrays(_, _, _)
LoadAiArrays(concepts, data, n) ==
    IF n = 0 THEN <<>>
    ELSE LET rest == LoadAiArrays(concepts, data, n - 1)
         IN IF HasKey(data, concepts[n])
            THEN Append(rest, <<concepts[n], LoadedAi(Get(data, concepts[n]))>>)
            ELSE rest

\* the loop of dual_layout_umap.py 119-135: the rows of both matrices, for the
\* concepts both files hold
UmapRows(concepts, minilm_data, qwen_data) ==
    LET valid_concepts == ValidConcepts(concepts, minilm_data, qwen_data, Len(concepts))
    IN [human |-> [i \in 1..Len(valid_concepts) |->
                      <<valid_concepts[i], LoadedHuman(Get(minilm_data, valid_concepts[i]))>>],
        ai |-> [i \in 1..Len(valid_concepts) |->
                   <<valid_concepts[i], LoadedAi(Get(qwen_data, valid_concepts[i]))>>]]

\* loader: one run of the loading code of an orchestrator ("dual" or "umap") on
\* the two .npz files
LoaderIdle == [pc |-> "idle", orchestrator |-> "none", concepts |-> <<>>,
               minilm_data |-> <<>>, qwen_data |-> <<>>,
               human_embeddings |-> <<>>, ai_embeddings |-> <<>>]

\* the arrays of rank 1 with n components 1..n
Vector(n) == Array1([j \in 1..n |-> j])

\* the arrays of shape (r, c) whose components are 1..r*c in row-major order
Matrix(r, c) == [shape |-> <<r, c>>, data |-> [k \in 1..(r * c) |-> k]]

\* stored arrays around the dimension the AI vectors are cut to
StoredArrays ==
    {Vector(n) : n \in 0..(AiDim + 2)} \cup
    {Matrix(r, c) : r \in 1..2, c \in 0..(AiDim + 2)}

LoadReturn ==
    /\ loader.pc = "call"
    /\ loader' =
          IF loader.orchestrator = "dual"
          THEN [loader EXCEPT !.pc = "return",
                  !.human_embeddings = LoadHumanArrays(loader.concepts, loader.minilm_data,
                                                       Len(loader.concepts)),
                  !.ai_embeddings = LoadAiArrays(loader.concepts, loader.qwen_data,
                                                 Len(loader.concepts))]
          ELSE LET rows == UmapRows(loader.concepts, loader.minilm_data, loader.qwen_data)
               IN [loader EXCEPT !.pc = "return", !.human_embeddings = rows.human,
                                 !.ai_embeddings = rows.ai]
    /\ UNCHANGED <<knn, layout, align, amplify, dual, manifold, server, session, viewer, scanner>>

-----------------------------------------------------------------------------
(* Specifications: one per function, its inputs drawn by Init *)

InitKnn ==
    /\ \E e \in OrderedDicts(1..KnnIds, EmbVals, KnnIds), kk \in 0..MaxK :
          knn = [pc |-> "call", embeddings |-> e, k |-> kk, relationships |-> <<>>]
    /\ layout = LayoutIdle
    /\ align = AlignIdle
    /\ amplify = AmplifyIdle
    /\ dual = DualIdle
    /\ manifold = ManifoldIdle
    /\ server = ServerIdle
    /\ session = SessionIdle
    /\ viewer = ViewerIdle
    /\ scanner = ScannerIdle
    /\ loader = LoaderIdle

NextKnn == KnnReturn

SpecKnn == InitKnn /\ [][NextKnn]_vars

InitLayout ==
    /\ \E e \in SortedDicts(LayoutIds, <<1, 0>>), r \in RelLists(LayoutIds, MaxRel) :
          layout = [pc |-> "call", embeddings |-> e, relationships |-> r,
                    G |-> EmptyGraph, coords |-> <<>>]
    /\ knn = KnnIdle
    /\ align = AlignIdle
    /\ amplify = AmplifyIdle
    /\ dual = DualIdle
    /\ manifold = ManifoldIdle
    /\ server = ServerIdle
    /\ session = SessionIdle
    /\ viewer = ViewerIdle
    /\ scanner = ScannerIdle
    /\ loader = LoaderIdle

NextLayout == LayoutReturn

SpecLayout == InitLayout /\ [][NextLayout]_vars

\* human_coords in ascending or descending key order, ai_coords ascending
InitAlign ==
    /\ \E h \in AscendingDicts(AlignIds, CoordVals), a \in AscendingDicts(AlignIds, CoordVals),
          rev, ps \in BOOLEAN :
          align = [pc |-> "call", human_coords |-> IF rev THEN Reverse(h) ELSE h, ai_coords |-> a,
                   preserve_scale |-> ps, result |-> NoResult]
    /\ knn = KnnIdle
    /\ layout = LayoutIdle
    /\ amplify = AmplifyIdle
    /\ dual = DualIdle
    /\ manifold = ManifoldIdle
    /\ server = ServerIdle
    /\ session = SessionIdle
    /\ viewer = ViewerIdle
    /\ scanner = ScannerIdle
    /\ loader = LoaderIdle

NextAlign == AlignReturn

SpecAlign == InitAlign /\ [][NextAlign]_vars

InitAmplify ==
    /\ \E h \in AscendingDicts(AmpIds, AmpVals), a \in AscendingDicts(AmpIds, AmpVals),
          f \in 0..MaxFactor :
          amplify = [pc |-> "call", aligned_human |-> h, aligned_ai |-> a, amplification_factor |-> f,
                     result |-> [error |-> "none", amplified_ai |-> <<>>]]
    /\ knn = KnnIdle
    /\ layout = LayoutIdle
    /\ align = AlignIdle
    /\ dual = DualIdle
    /\ manifold = ManifoldIdle
    /\ server = ServerIdle
    /\ session = SessionIdle
    /\ viewer = ViewerIdle
    /\ scanner = ScannerIdle
    /\ loader = LoaderIdle

NextAmplify == AmplifyReturn

SpecAmplify == InitAmplify /\ [][NextAmplify]_vars

\* the stored data of one run: per concept and collection no embedding, a
\* zero vector or a usable vector; relationship rows over the first m concepts
InitDual ==
    /\ \E hAbsent, hZero, aZero, aAbsent, m \in 0..DualIds, lastNull \in BOOLEAN :
          /\ hAbsent + hZero <= DualIds
          /\ aZero + aAbsent <= DualIds
          /\ LET hk == StoredKindsBy(DualIds, "absent", hAbsent, "zero", hZero)
                 ak == StoredKindsBy(DualIds, "zero", aZero, "absent", aAbsent)
             IN dual = [DualIdle EXCEPT !.pc = "start", !.rows = RelationshipRows(m, lastNull),
                                        !.minilm_data = StoredData(hk, DualIds),
                                        !.qwen_data = StoredData(ak, DualIds)]
    /\ knn = KnnIdle
    /\ layout = LayoutIdle
    /\ align = AlignIdle
    /\ amplify = AmplifyIdle
    /\ manifold = ManifoldIdle
    /\ server = ServerIdle
    /\ session = SessionIdle
    /\ viewer = ViewerIdle
    /\ scanner = ScannerIdle
    /\ loader = LoaderIdle

NextDual == DualLoad \/ DualSphere \/ DualKnn \/ DualOrganic \/ DualReturn

SpecDual == InitDual /\ [][NextDual]_vars

InitManifold ==
    /\ \E hAbsent, hZero, aZero, aAbsent, m \in 0..DualIds, lastNull \in BOOLEAN :
          /\ hAbsent + hZero <= DualIds
          /\ aZero + aAbsent <= DualIds
          /\ LET hk == StoredKindsBy(DualIds, "absent", hAbsent, "zero", hZero)
                 ak == StoredKindsBy(DualIds, "zero", aZero, "absent", aAbsent)
             IN manifold = [ManifoldIdle EXCEPT !.pc = "start", !.rows = RelationshipRows(m, lastNull),
                                                !.minilm_data = StoredData(hk, DualIds),
                                                !.qwen_data = StoredData(ak, DualIds)]
    /\ knn = KnnIdle
    /\ layout = LayoutIdle
    /\ align = AlignIdle
    /\ amplify = AmplifyIdle
    /\ dual = DualIdle
    /\ server = ServerIdle
    /\ session = SessionIdle
    /\ viewer = ViewerIdle
    /\ scanner = ScannerIdle
    /\ loader = LoaderIdle

NextManifold == ManifoldLoad \/ ManifoldAlign \/ ManifoldReturn

SpecManifold == InitManifold /\ [][NextManifold]_vars

\* one orchestration run of either kind
InitOrchestration == InitDual \/ InitManifold

NextOrchestration == NextDual \/ NextManifold

SpecOrchestration == InitOrchestration /\ [][NextOrchestration]_vars

\* generate_dual_layout() is called a second time in the same process: its
\* locals are new, the database and the two files are what the first call left
DualAgain ==
    /\ session.run = 1
    /\ dual.pc \in {"returned", "raised"}
    /\ session' = [run |-> 2, first |-> dual]
    /\ dual' = [DualIdle EXCEPT !.pc = "start", !.rows = dual.rows,
                                !.minilm_data = dual.minilm_data, !.qwen_data = dual.qwen_data]
    /\ UNCHANGED <<knn, layout, align, amplify, manifold, server, viewer, scanner, loader>>

\* generate_umap_layout() is called a second time in the same process
ManifoldAgain ==
    /\ session.run = 1
    /\ manifold.pc \in {"returned", "raised"}
    /\ session' = [run |-> 2, first |-> manifold]
    /\ manifold' = [ManifoldIdle EXCEPT !.pc = "start", !.rows = manifold.rows,
                                        !.minilm_data = manifold.minilm_data,
                                        !.qwen_data = manifold.qwen_data]
    /\ UNCHANGED <<knn, layout, align, amplify, dual, server, viewer, scanner, loader>>

\* two calls of one orchestrator in one process, on the same database and files
InitRerun ==
    /\ \E hZero, aAbsent, m \in 0..DualIds, umap \in BOOLEAN :
          LET hk == StoredKindsBy(DualIds, "absent", 0, "zero", hZero)
              ak == StoredKindsBy(DualIds, "zero", 0, "absent", aAbsent)
          IN /\ dual = IF umap THEN DualIdle
                       ELSE [DualIdle EXCEPT !.pc = "start", !.rows = RelationshipRows(m, FALSE),
                                             !.minilm_data = StoredData(hk, DualIds),
                                             !.qwen_data = StoredData(ak, DualIds)]
             /\ manifold = IF umap
                           THEN [ManifoldIdle EXCEPT !.pc = "start",
                                                     !.rows = RelationshipRows(m, FALSE),
                                                     !.minilm_data = StoredData(hk, DualIds),
                                                     !.qwen_data = StoredData(ak, DualIds)]
                           ELSE ManifoldIdle
    /\ knn = KnnIdle
    /\ layout = LayoutIdle
    /\ align = AlignIdle
    /\ amplify = AmplifyIdle
    /\ server = ServerIdle
    /\ session = SessionIdle
    /\ viewer = ViewerIdle
    /\ scanner = ScannerIdle
    /\ loader = LoaderIdle

NextRerun == NextDual \/ DualAgain \/ NextManifold \/ ManifoldAgain

SpecRerun == InitRerun /\ [][NextRerun]_vars

\* the service is launched on a machine with or without umap; the database and
\* the two .npz files are the same for both endpoints
InitServer ==
    /\ \E hZero, aAbsent, m \in 0..DualIds, installed \in BOOLEAN :
          LET hk == StoredKindsBy(DualIds, "absent", 0, "zero", hZero)
              ak == StoredKindsBy(DualIds, "zero", 0, "absent", aAbsent)
          IN /\ dual = [DualIdle EXCEPT !.rows = RelationshipRows(m, FALSE),
                                        !.minilm_data = StoredData(hk, DualIds),
                                        !.qwen_data = StoredData(ak, DualIds)]
             /\ manifold = [ManifoldIdle EXCEPT !.rows = RelationshipRows(m, FALSE),
                                                !.minilm_data = StoredData(hk, DualIds),
                                                !.qwen_data = StoredData(ak, DualIds)]
             /\ server = [ServerIdle EXCEPT !.umap_installed = installed]
    /\ knn = KnnIdle
    /\ layout = LayoutIdle
    /\ align = AlignIdle
    /\ amplify = AmplifyIdle
    /\ session = SessionIdle
    /\ viewer = ViewerIdle
    /\ scanner = ScannerIdle
    /\ loader = LoaderIdle

NextServer ==
    \/ ServerStart
    \/ GetDualGalaxyDataCall
    \/ NextDual
    \/ GetDualGalaxyDataReply
    \/ GetManifoldGalaxyDataCall
    \/ NextManifold
    \/ GetManifoldGalaxyDataReply

SpecServer == InitServer /\ [][NextServer]_vars

\* a scale-preserving call of align_layouts_procrustes on two dicts over the same
\* names 1..n
InitAuthentic ==
    /\ \E n \in 0..(AlignIds - 1) :
          \E h, a \in SameKeyDicts([i \in 1..n |-> <<i, <<0, 0, 0>>>>], CoordVals) :
             align = [pc |-> "call", human_coords |-> h, ai_coords |-> a,
                      preserve_scale |-> TRUE, result |-> NoResult]
    /\ knn = KnnIdle
    /\ layout = LayoutIdle
    /\ amplify = AmplifyIdle
    /\ dual = DualIdle
    /\ manifold = ManifoldIdle
    /\ server = ServerIdle
    /\ session = SessionIdle
    /\ viewer = ViewerIdle
    /\ scanner = ScannerIdle
    /\ loader = LoaderIdle

\* positions of a point set in general position, and translations
PointVals == {<<0, 0, 0>>, <<10, 0, 0>>, <<0, 20, 0>>, <<0, 0, 30>>}

Translations == {<<0, 0, 0>>, <<5, -5, 15>>}

\* ai = human @ R + t, row by row
Moved(human_coords, R, t) ==
    [i \in 1..Len(human_coords) |->
        <<human_coords[i][1], VecAdd(Rotated(human_coords[i][2], R), t)>>]

\* a scale-preserving call of align_layouts_procrustes on a Human point set and
\* its image under a rotation R and a translation t
InitRecover ==
    /\ \E n \in 3..AlignIds :
          \E h \in SameKeyDicts([i \in 1..n |-> <<i, <<0, 0, 0>>>>], PointVals),
             R \in ProperRotations, t \in Translations :
             align = [pc |-> "call", human_coords |-> h, ai_coords |-> Moved(h, R, t),
                      preserve_scale |-> TRUE, result |-> NoResult]
    /\ knn = KnnIdle
    /\ layout = LayoutIdle
    /\ amplify = AmplifyIdle
    /\ dual = DualIdle
    /\ manifold = ManifoldIdle
    /\ server = ServerIdle
    /\ session = SessionIdle
    /\ viewer = ViewerIdle
    /\ scanner = ScannerIdle
    /\ loader = LoaderIdle

NextRecover == AlignReturn

SpecRecover == InitRecover /\ [][NextRecover]_vars

\* one scale-preserving alignment of either module: a call of
\* align_layouts_procrustes, or the call of align_umap_coords inside
\* generate_umap_layout
InitAlignment == InitAuthentic \/ InitManifold

NextAlignment == NextAlign \/ NextManifold

SpecAlignment == InitAlignment /\ [][NextAlignment]_vars

\* the viewer process is not running, there is no cache file, the store holds
\* relationships among the first m concepts
InitViewer ==
    /\ \E m \in 0..ViewerIds : viewer = [ViewerIdle EXCEPT !.store.m = m]
    /\ knn = KnnIdle
    /\ layout = LayoutIdle
    /\ align = AlignIdle
    /\ amplify = AmplifyIdle
    /\ dual = DualIdle
    /\ manifold = ManifoldIdle
    /\ server = ServerIdle
    /\ session = SessionIdle
    /\ scanner = ScannerIdle
    /\ loader = LoaderIdle

\* launches, requests, store changes, removal of the cache file, shutdowns
NextViewer ==
    \/ StartupEvent
    \/ GetGalaxyData
    \/ ProjectionLayout
    \/ ProjectionDump
    \/ StoreInsert
    \/ StoreUpdate
    \/ StoreOutage
    \/ CacheRemove
    \/ Shutdown

SpecViewer == InitViewer /\ [][NextViewer]_vars

\* the same, and the process may be killed while a projection is computed
NextInterrupted == NextViewer \/ Interrupt

SpecInterrupted == InitViewer /\ [][NextInterrupted]_vars

\* batch_scan is called on a list of at most ScanLen concepts (a name may occur
\* twice); each call of scan_concept will succeed or raise
InitScan ==
    /\ \E n \in 0..ScanLen :
          \E cs \in [1..n -> 1..ScanLen], os \in [1..n -> ScanOutcomes] :
             scanner = [ScannerIdle EXCEPT !.pc = "loop", !.concepts = cs, !.outcomes = os]
    /\ knn = KnnIdle
    /\ layout = LayoutIdle
    /\ align = AlignIdle
    /\ amplify = AmplifyIdle
    /\ dual = DualIdle
    /\ manifold = ManifoldIdle
    /\ server = ServerIdle
    /\ session = SessionIdle
    /\ viewer = ViewerIdle
    /\ loader = LoaderIdle

NextScan == BatchScanIteration \/ BatchScanReturn

SpecScan == InitScan /\ [][NextScan]_vars

\* the dicts that hold, for some of the concepts 1..n in ascending order, one of
\* the arrays of A
ArrayFiles(n, A) ==
    {d \in OrderedDicts(1..n, A, n) : \A i, j \in 1..Len(d) : i < j => d[i][1] < d[j][1]}

\* the loading code of one orchestrator runs on two files of stored arrays: the
\* AI file holds the arrays of the Human file, but for its first drop concepts
InitLoad ==
    /\ \E o \in {"dual", "umap"}, h \in ArrayFiles(LoadIds, StoredArrays), drop \in 0..1 :
          loader = [LoaderIdle EXCEPT !.pc = "call", !.orchestrator = o,
                                      !.concepts = SortedSeq(1..LoadIds),
                                      !.minilm_data = h,
                                      !.qwen_data = SubSeq(h, 1 + drop, Len(h))]
    /\ knn = KnnIdle
    /\ layout = LayoutIdle
    /\ align = AlignIdle
    /\ amplify = AmplifyIdle
    /\ dual = DualIdle
    /\ manifold = ManifoldIdle
    /\ server = ServerIdle
    /\ session = SessionIdle
    /\ viewer = ViewerIdle
    /\ scanner = ScannerIdle

NextLoad == LoadReturn

SpecLoad == InitLoad /\ [][NextLoad]_vars

-----------------------------------------------------------------------------
(* Claims on compute_knn_relationships, checked under SpecKnn *)

\* indices of the edges a source contributed
EdgeIdx(source) == {i \in 1..Len(knn.relationships) : knn.relationships[i][1] = source}

\* the other concepts with a non-zero-norm vector
OtherUsable(source) ==
    {o \in KeySet(knn.embeddings) \ {source} : Dot(Get(knn.embeddings, o), Get(knn.embeddings, o)) /= 0}

\* C3: every source with a non-zero-norm vector emits exactly min(k, m) edges to
\* min(k, m) distinct usable concepts, each carrying its cosine distance; no
\* omitted candidate is strictly closer than an emitted one; the source's edges
\* are in ascending order of distance.
C3_KnnExact ==
    knn.pc = "return" =>
        \A c \in KeySet(knn.embeddings) :
            Dot(Get(knn.embeddings, c), Get(knn.embeddings, c)) /= 0 =>
                LET idx == EdgeIdx(c)
                    m == Cardinality(OtherUsable(c))
                    targets == {knn.relationships[i][2] : i \in idx}
                IN /\ Cardinality(idx) = Min(knn.k, m)
                   /\ Cardinality(targets) = Min(knn.k, m)
                   /\ targets \subseteq OtherUsable(c)
                   /\ \A i \in idx : knn.relationships[i][3] =
                          CosineDist(Get(knn.embeddings, c), Get(knn.embeddings, knn.relationships[i][2]))
                   /\ \A o \in OtherUsable(c) \ targets : \A i \in idx :
                          ~DistLess(CosineDist(Get(knn.embeddings, c), Get(knn.embeddings, o)),
                                    knn.relationships[i][3])
                   /\ \A i, j \in idx : i < j =>
                          ~DistLess(knn.relationships[j][3], knn.relationships[i][3])

\* a source with more usable candidates than k, the nearest of them last in the
\* dict, has returned its k edges
C3_Witness ==
    /\ knn.pc = "return"
    /\ knn.k = 1
    /\ knn.embeddings = << <<1, <<1, 0>>>>, <<2, <<0, 1>>>>, <<3, <<1, 1>>>> >>
    /\ Len(knn.relationships) = 3

\* C4: no returned edge has a zero-norm concept as source or as target.
C4_NoZeroNormEdge ==
    knn.pc = "return" =>
        \A i \in 1..Len(knn.relationships) :
            /\ Dot(Get(knn.embeddings, knn.relationships[i][1]),
                   Get(knn.embeddings, knn.relationships[i][1])) /= 0
            /\ Dot(Get(knn.embeddings, knn.relationships[i][2]),
                   Get(knn.embeddings, knn.relationships[i][2])) /= 0

\* zero-norm and non-zero-norm vectors are mixed, and edges were returned
C4_Witness ==
    /\ knn.pc = "return"
    /\ \E c \in KeySet(knn.embeddings) : Get(knn.embeddings, c) = <<0, 0>>
    /\ Cardinality({c \in KeySet(knn.embeddings) : Get(knn.embeddings, c) /= <<0, 0>>}) = 2
    /\ Len(knn.relationships) = 2

\* C27: compute_knn_relationships returns no edge from a concept to itself and
\* no ordered (source, target) pair twice.
C27_NoSelfEdgeNoDuplicate ==
    knn.pc = "return" =>
       /\ \A i \in 1..Len(knn.relationships) :
             knn.relationships[i][1] /= knn.relationships[i][2]
       /\ \A i, j \in 1..Len(knn.relationships) :
             i /= j => <<knn.relationships[i][1], knn.relationships[i][2]>> /=
                       <<knn.relationships[j][1], knn.relationships[j][2]>>

\* three concepts, k at least 2: some pair is returned in both directions, and
\* every concept with a usable embedding has as many edges as it has neighbours
C27_Witness ==
    /\ knn.pc = "return"
    /\ knn.k >= 2
    /\ Len(knn.embeddings) = 3
    /\ Len(knn.relationships) = 6
    /\ \E i, j \in 1..Len(knn.relationships) :
          /\ knn.relationships[i][1] = knn.relationships[j][2]
          /\ knn.relationships[i][2] = knn.relationships[j][1]

-----------------------------------------------------------------------------
(* Claims on get_graph_layout_3d, checked under SpecLayout *)

\* the rows whose two endpoints both have an embedding
RetainedRows ==
    {i \in 1..Len(layout.relationships) :
        /\ layout.relationships[i][1] \in KeySet(layout.embeddings)
        /\ layout.relationships[i][2] \in KeySet(layout.embeddings)}

\* the unordered pairs joined by an edge of the graph
GraphPairs == DOMAIN layout.G.weight

\* C5: a row whose source or target has no embedding adds neither an edge nor a
\* node, so every key of the returned coordinates is a key of embeddings.
C5_SkipsUnknownIds ==
    layout.pc = "return" =>
        /\ KeySet(layout.coords) \subseteq KeySet(layout.embeddings)
        /\ Range(layout.G.nodes) \subseteq KeySet(layout.embeddings)
        /\ \A e \in GraphPairs : e \subseteq KeySet(layout.embeddings)
        /\ \A e \in GraphPairs : \E i \in RetainedRows :
               e = {layout.relationships[i][1], layout.relationships[i][2]}

\* a row with an unknown target was skipped while another row was retained
C5_Witness ==
    /\ layout.pc = "return"
    /\ \E i \in 1..Len(layout.relationships) :
          /\ layout.relationships[i][1] \in KeySet(layout.embeddings)
          /\ layout.relationships[i][2] \notin KeySet(layout.embeddings)
    /\ RetainedRows /= {}
    /\ Len(layout.coords) = 2

\* C6: the keys of the returned coordinates are exactly the endpoints of the
\* retained rows; an embedded concept in no retained row is absent.
C6_KeysAreRetainedEndpoints ==
    layout.pc = "return" =>
        /\ KeySet(layout.coords) =
              UNION {{layout.relationships[i][1], layout.relationships[i][2]} : i \in RetainedRows}
        /\ Len(layout.coords) = Cardinality(KeySet(layout.coords))

\* an embedded concept occurs in no retained row and the result is not empty
C6_Witness ==
    /\ layout.pc = "return"
    /\ Len(layout.coords) >= 2
    /\ KeySet(layout.embeddings) \ KeySet(layout.coords) /= {}

-----------------------------------------------------------------------------
(* Claims on align_layouts_procrustes, checked under SpecAlign *)

SharedIds == KeySet(align.human_coords) \cap KeySet(align.ai_coords)

\* C1: the call fails with the insufficient-overlap ValueError, and returns no
\* coordinates, exactly when fewer than 3 names are shared, under both policies.
C1_InsufficientOverlap ==
    align.pc = "return" =>
        /\ (Cardinality(SharedIds) < 3) <=> (align.result.error = "InsufficientOverlap")
        /\ align.result.error = "InsufficientOverlap" =>
              align.result.aligned_human = <<>> /\ align.result.aligned_ai = <<>>

\* exactly two names are shared, under the scale-preserving policy, and the call failed
C1_Witness ==
    /\ align.pc = "return"
    /\ align.preserve_scale
    /\ Cardinality(SharedIds) = 2
    /\ Len(align.human_coords) = 3
    /\ align.result.error = "InsufficientOverlap"

\* C2: both returned dictionaries list exactly the shared names, ascending, in the
\* same order, and row i of either matrix is the input position of the i-th name.
C2_SortedIntersection ==
    (align.pc = "return" /\ align.result.error = "none") =>
        LET ks == Keys(align.result.aligned_human)
        IN /\ Keys(align.result.aligned_ai) = ks
           /\ Range(ks) = SharedIds
           /\ \A i, j \in 1..Len(ks) : i < j => ks[i] < ks[j]
           /\ Len(align.result.human_matrix) = Len(ks)
           /\ Len(align.result.ai_matrix) = Len(ks)
           /\ \A i \in 1..Len(ks) :
                 /\ align.result.human_matrix[i] = Get(align.human_coords, ks[i])
                 /\ align.result.ai_matrix[i] = Get(align.ai_coords, ks[i])

\* ai_coords has a name human_coords lacks, human_coords is in descending key
\* order, and the three shared names came back
C2_Witness ==
    /\ align.pc = "return"
    /\ align.result.error = "none"
    /\ Keys(align.human_coords) = <<4, 3, 2>>
    /\ Keys(align.ai_coords) = <<1, 2, 3, 4>>
    /\ Keys(align.result.aligned_human) = <<2, 3, 4>>

\* the call got past the test of the number of shared names
PastOverlapTest == align.pc = "return" /\ align.result.error /= "InsufficientOverlap"

\* the quantity a scale is divided by is zero: np.std(human_centered) under the
\* scale-preserving policy (dual_layout.py 163), np.var(mtx2) of the transformed
\* AI matrix under the constrained one (dual_layout.py 187)
ZeroVarianceCase ==
    /\ PastOverlapTest
    /\ IF align.preserve_scale THEN ZeroSpread(Centered(align.result.human_matrix))
       ELSE /\ align.result.error = "none"
            /\ \A i \in 1..Len(align.result.aligned_ai) :
                   align.result.aligned_ai[i][2] = <<0, 0, 0>>

\* C13: when the variance a scale is divided by is zero, the call raises nothing
\* and returns finite coordinates.
C13_ZeroVarianceSkipped ==
    ZeroVarianceCase => align.result.error = "none" /\ align.result.finite

\* C14: under either policy the disparity returned is the square root of the sum
\* of squared residuals between the centered Human rows and the transformed AI rows,
\* divided by the number of shared names.
C14_DisparityIsRms ==
    (align.pc = "return" /\ align.result.error = "none") =>
        /\ align.result.disparity.form = "sqrt(sum_sq / n)"
        /\ align.result.disparity.n = Len(align.result.shared_concepts)
        /\ align.result.disparity.sum_sq =
              SumSqResiduals(Centered(align.result.human_matrix),
                             RotateRows(Centered(align.result.ai_matrix), align.result.R),
                             Len(align.result.shared_concepts))

\* a scale-preserving call of align_layouts_procrustes returned
AuthenticReturned ==
    align.pc = "return" /\ align.preserve_scale /\ align.result.error = "none"

\* generate_umap_layout has just come back from its call of align_umap_coords
\* (the aligned clouds are not touched afterwards)
UmapAligned == manifold.pc = "aligned"

\* C20, checked under SpecAlignment: under the scale-preserving policy the
\* viewing scale is one factor, taken from the centered Human matrix alone; both
\* returned clouds are in that scale, the Human one unrotated and the AI one
\* rotated; and a second call that differs only in the AI values (same keys)
\* has the same factor and returns the same aligned Human positions.  The same
\* holds of align_umap_coords.
C20_ScaleFromHumanOnly ==
    /\ AuthenticReturned =>
          LET res == align.result
              human_centered == Centered(res.human_matrix)
              ai_centered == Centered(res.ai_matrix)
          IN /\ res.scale_from = "human"
             /\ res.std_sq = StdSq(human_centered)
             /\ res.finite =>
                   \A i \in 1..Len(res.shared_concepts) :
                      /\ res.aligned_human[i][2] = human_centered[i]
                      /\ res.aligned_ai[i][2] = Rotated(ai_centered[i], res.R)
             /\ \A other \in SameKeyDicts(align.ai_coords, CoordVals) :
                   \A q \in RotationsOf(align.human_coords, other) :
                      LET alt == align_layouts_procrustes(align.human_coords, other, TRUE, q)
                      IN /\ alt.std_sq = res.std_sq
                         /\ alt.finite = res.finite
                         /\ alt.aligned_human = res.aligned_human
    /\ UmapAligned =>
          LET human_coords == FitTransform(manifold.human_matrix, manifold.placement[1])
              human_centered == Centered(human_coords)
          IN /\ manifold.aligned.std_sq = StdSq(human_centered)
             /\ manifold.aligned.finite =>
                   \A i \in 1..Len(manifold.valid_concepts) :
                      manifold.aligned.aligned_human[i][2] = human_centered[i]
             /\ \A p43 \in 0..(NumPlacements - 1) :
                   LET other == FitTransform(manifold.ai_matrix, p43)
                   IN \A q \in SvdRotations(human_centered, Centered(other)) :
                         LET alt == align_umap_coords(human_coords, other,
                                                      manifold.valid_concepts, q)
                         IN /\ alt.std_sq = manifold.aligned.std_sq
                            /\ alt.finite = manifold.aligned.finite
                            /\ alt.aligned_human = manifold.aligned.aligned_human

\* a scale-preserving call returned a finite result for an AI cloud without any
\* spread, all three names shared: the factor cannot have come from the AI side
C20_Witness ==
    /\ AuthenticReturned
    /\ Len(align.result.shared_concepts) >= 3
    /\ align.result.finite
    /\ ZeroSpread(Centered(align.result.ai_matrix))
    /\ \E other \in SameKeyDicts(align.ai_coords, CoordVals) : other /= align.ai_coords

\* the same policy in align_umap_coords, three concepts aligned
C20_ManifoldCase ==
    /\ UmapAligned
    /\ Len(manifold.valid_concepts) >= 3
    /\ manifold.aligned.finite

\* the proper rotations R and translations t with ai = human @ R + t, row by row
Relating ==
    {Rt \in ProperRotations \X Translations :
        \A i \in 1..Len(align.result.shared_concepts) :
           align.result.ai_matrix[i] =
              VecAdd(Rotated(align.result.human_matrix[i], Rt[1]), Rt[2])}

Det3(u, v, w) ==
    u[1] * (v[2] * w[3] - v[3] * w[2]) - u[2] * (v[1] * w[3] - v[3] * w[1])
      + u[3] * (v[1] * w[2] - v[2] * w[1])

\* the centered rows span the three dimensions
FullRank(centered) == \E i, j, k \in 1..Len(centered) : Det3(centered[i], centered[j], centered[k]) /= 0

UnitVectors == {<<1, 0, 0>>, <<0, 1, 0>>, <<0, 0, 1>>}

\* the matrix applied undoes R
Undoes(applied, R) == \A v \in UnitVectors : Rotated(Rotated(v, R), applied) = v

C19_OnALine ==
    /\ AuthenticReturned
    /\ ~FullRank(Centered(align.result.human_matrix))
    /\ align.result.finite
    /\ \E Rt \in Relating : ~Undoes(align.result.R, Rt[1])

-----------------------------------------------------------------------------
(* Claims on apply_drift_amplification, checked under SpecAmplify *)

AmpReturned == amplify.pc = "return" /\ amplify.result.error = "none"

\* h + factor * (a - h) in exact arithmetic, for one name and one component
ExactAmplified(c, n) ==
    Get(amplify.aligned_human, c)[n]
       + amplify.amplification_factor * (Get(amplify.aligned_ai, c)[n] - Get(amplify.aligned_human, c)[n])

C8_KeysOfHuman ==
    amplify.pc = "return" =>
        /\ amplify.result.error = "none" =>
              Keys(amplify.result.amplified_ai) = Keys(amplify.aligned_human)
        /\ KeySet(amplify.aligned_human) \subseteq KeySet(amplify.aligned_ai) =>
              amplify.result.error = "none"

\* aligned_ai has a name aligned_human lacks, and the call returned one position
C8_Witness ==
    /\ AmpReturned
    /\ KeySet(amplify.aligned_human) = {1}
    /\ KeySet(amplify.aligned_ai) = {1, 2}
    /\ Len(amplify.result.amplified_ai) = 1

-----------------------------------------------------------------------------
(* Claims on generate_dual_layout and generate_umap_layout *)

\* the concepts each mode aligned in a finished run of generate_dual_layout
NodeIds(nodes) == {nodes[i].id : i \in 1..Len(nodes)}

SphereConcepts == KeySet(dual.sphere.aligned_human)
OrganicConcepts == KeySet(dual.organic.aligned_human)

\* C9 as stated, checked under SpecDual: a concept aligned in either mode is a
\* node of the returned list; a concept the organic mode lacks carries its sphere
\* positions in the organic fields, and a concept the sphere mode lacks carries
\* its organic positions in the sphere fields.
C9_MergeKeepsEitherMode ==
    dual.pc = "returned" =>
        \A c \in SphereConcepts \cup OrganicConcepts :
            \E i \in 1..Len(dual.nodes) :
                LET node == dual.nodes[i]
                IN /\ node.id = c
                   /\ c \notin OrganicConcepts =>
                         /\ node.pos_human_organic = node.pos_human
                         /\ node.pos_ai_organic = node.pos_ai
                   /\ c \notin SphereConcepts =>
                         /\ node.pos_human = Get(dual.organic.aligned_human, c)
                         /\ node.pos_ai = Get(dual.organic.aligned_ai, c)

\* the same records with the same multiplicities
SameNodes(s, t) ==
    /\ Len(s) = Len(t)
    /\ \A x \in Range(s) \cup Range(t) :
          Cardinality({i \in 1..Len(s) : s[i] = x}) = Cardinality({i \in 1..Len(t) : t[i] = x})

\* C10, checked under SpecOrchestration: the returned list of generate_dual_layout
\* is in non-increasing order of drift_organic, that of generate_umap_layout in
\* non-increasing order of drift_umap, and each holds exactly the nodes built.
C10_SortedByDrift ==
    /\ dual.pc = "returned" =>
          /\ \A i \in 1..(Len(dual.nodes) - 1) :
                dual.nodes[i].drift_organic >= dual.nodes[i + 1].drift_organic
          /\ SameNodes(dual.nodes, dual.built)
    /\ manifold.pc = "returned" =>
          /\ \A i \in 1..(Len(manifold.nodes) - 1) :
                manifold.nodes[i].drift_umap >= manifold.nodes[i + 1].drift_umap
          /\ SameNodes(manifold.nodes, manifold.built)

\* generate_dual_layout returned a list whose nodes were built in another order:
\* a node of smaller organic drift was built before one of larger drift
C10_Witness ==
    /\ dual.pc = "returned"
    /\ Len(dual.built) >= 3
    /\ \E i \in 1..(Len(dual.built) - 1) :
          dual.built[i].drift_organic < dual.built[i + 1].drift_organic
    /\ dual.nodes /= dual.built

\* the same case in generate_umap_layout
C10_ManifoldCase ==
    /\ manifold.pc = "returned"
    /\ Len(manifold.built) >= 3
    /\ \E i \in 1..(Len(manifold.built) - 1) :
          manifold.built[i].drift_umap < manifold.built[i + 1].drift_umap
    /\ manifold.nodes /= manifold.built

\* the concepts of the concept store without an embedding in a file
Missing(data) == {c \in 1..DualIds : ~HasKey(data, c)}

\* the concepts named by a list of relationships
Endpoints(relationships) ==
    {relationships[i][1] : i \in 1..Len(relationships)}
        \cup {relationships[i][2] : i \in 1..Len(relationships)}

\* C15, checked under SpecOrchestration: a concept without an embedding in one
\* file is left out of that space's embeddings without an error, and is in no
\* k-NN graph of that space, no aligned set of a mode that needs it and no node;
\* generate_umap_layout keeps exactly the concepts with an embedding in both files.
C15_MissingEmbeddingExcluded ==
    /\ dual.pc \notin {"idle", "start"} =>
          LET lacking == Missing(dual.minilm_data) \cup Missing(dual.qwen_data)
          IN /\ dual.pc = "loaded" => dual.error = "none"
             /\ KeySet(dual.human_embeddings) = (1..DualIds) \ Missing(dual.minilm_data)
             /\ KeySet(dual.ai_embeddings) = (1..DualIds) \ Missing(dual.qwen_data)
             /\ Endpoints(dual.human_relationships) \cap Missing(dual.minilm_data) = {}
             /\ Endpoints(dual.ai_relationships) \cap Missing(dual.qwen_data) = {}
             /\ SphereConcepts \cap lacking = {}
             /\ KeySet(dual.sphere.aligned_ai) \cap lacking = {}
             /\ OrganicConcepts \cap lacking = {}
             /\ KeySet(dual.organic.aligned_ai) \cap lacking = {}
             /\ NodeIds(dual.nodes) \cap lacking = {}
    /\ manifold.pc \notin {"idle", "start"} =>
          LET lacking == Missing(manifold.minilm_data) \cup Missing(manifold.qwen_data)
          IN /\ manifold.pc = "loaded" => manifold.error = "none"
             /\ Range(manifold.valid_concepts) = (1..DualIds) \ lacking
             /\ Len(manifold.human_matrix) = Len(manifold.valid_concepts)
             /\ Len(manifold.ai_matrix) = Len(manifold.valid_concepts)
             /\ KeySet(manifold.aligned.aligned_human) \subseteq Range(manifold.valid_concepts)
             /\ KeySet(manifold.aligned.aligned_ai) \subseteq Range(manifold.valid_concepts)
             /\ NodeIds(manifold.nodes) \cap lacking = {}

\* generate_dual_layout returned three nodes although the Qwen file lacks a
\* concept that the MiniLM file holds
C15_Witness ==
    /\ dual.pc = "returned"
    /\ Missing(dual.qwen_data) /= {}
    /\ Missing(dual.minilm_data) = {}
    /\ Len(dual.nodes) >= 3

\* the same in generate_umap_layout, the MiniLM file lacking a concept
C15_ManifoldCase ==
    /\ manifold.pc = "returned"
    /\ Missing(manifold.minilm_data) /= {}
    /\ Missing(manifold.qwen_data) = {}
    /\ Len(manifold.nodes) >= 3

\* one of the two embedding files holds no concept at all
EmptyCollection(run) == Len(run.minilm_data) = 0 \/ Len(run.qwen_data) = 0

\* C16, checked under SpecOrchestration: a run on an empty embedding collection
\* ends with the error "no data" and without a node list.
C16_NoDataError ==
    /\ (dual.pc \in {"returned", "raised"} /\ EmptyCollection(dual)) =>
          dual.pc = "raised" /\ dual.error = "NoData" /\ dual.nodes = <<>>
    /\ (manifold.pc \in {"returned", "raised"} /\ EmptyCollection(manifold)) =>
          manifold.pc = "raised" /\ manifold.error = "NoData" /\ manifold.nodes = <<>>

\* other answers the aggregate query could give per concept: no row for any
\* concept, and averages and counts that rise or fall with the concept
OtherAggregates ==
    {[c \in 1..DualIds |-> [avgDistance |-> <<5, 10>>, connections |-> 0]],
     [c \in 1..DualIds |-> [avgDistance |-> <<c, 10>>, connections |-> c]],
     [c \in 1..DualIds |-> [avgDistance |-> <<DualIds - c + 1, 10>>, connections |-> DualIds - c]]}

\* a node without the two fields the aggregates are written to
Geometry(node) == [f \in DOMAIN node \ {"avgDistance", "connections"} |-> node[f]]

SameGeometry(s, t) ==
    /\ Len(s) = Len(t)
    /\ \A i \in 1..Len(s) : Geometry(s[i]) = Geometry(t[i])

\* C17, checked under SpecOrchestration: a run that got other answers from the
\* per-concept aggregate query returns the same nodes in the same order, apart
\* from the fields avgDistance and connections, which hold the answers; the
\* alignments and their disparities are computed before the first query.
C17_AggregatesOnlyAnnotate ==
    /\ dual.pc = "returned" =>
          \A other \in OtherAggregates :
             LET nodes == SortByOrganicDrift(BuildNodesWith(dual.sphere, dual.organic, other))
             IN /\ SameGeometry(nodes, dual.nodes)
                /\ \A i \in 1..Len(nodes) :
                      /\ nodes[i].avgDistance = other[nodes[i].id].avgDistance
                      /\ nodes[i].connections = other[nodes[i].id].connections
    /\ manifold.pc = "returned" =>
          \A other \in OtherAggregates :
             LET nodes == SortByUmapDrift(BuildUmapNodesWith(manifold.valid_concepts,
                                                             manifold.aligned, other))
             IN /\ SameGeometry(nodes, manifold.nodes)
                /\ \A i \in 1..Len(nodes) :
                      /\ nodes[i].avgDistance = other[nodes[i].id].avgDistance
                      /\ nodes[i].connections = other[nodes[i].id].connections

\* generate_dual_layout returned three nodes or more, in an order that is neither
\* that of their connection counts nor that of some other answers of the query
C17_Witness ==
    /\ dual.pc = "returned"
    /\ Len(dual.nodes) >= 3
    /\ \E i \in 1..(Len(dual.nodes) - 1) : dual.nodes[i].connections < dual.nodes[i + 1].connections
    /\ \E other \in OtherAggregates :
          \E i \in 1..(Len(dual.nodes) - 1) :
             other[dual.nodes[i].id].connections < other[dual.nodes[i + 1].id].connections

\* the same in generate_umap_layout
C17_ManifoldCase ==
    /\ manifold.pc = "returned"
    /\ Len(manifold.nodes) >= 3
    /\ \E other \in OtherAggregates :
          \E i \in 1..(Len(manifold.nodes) - 1) :
             other[manifold.nodes[i].id].connections < other[manifold.nodes[i + 1].id].connections

\* what a finished call of generate_dual_layout gave its caller: the exception, or
\* the nodes and the metadata (both disparities, the number of concepts)
DualOutcome(run) ==
    [pc |-> run.pc, error |-> run.error, nodes |-> run.nodes,
     disparity_sphere |-> run.sphere.disparity, disparity_organic |-> run.organic.disparity,
     num_concepts |-> Len(run.nodes)]

\* the same for generate_umap_layout
ManifoldOutcome(run) ==
    [pc |-> run.pc, error |-> run.error, nodes |-> run.nodes,
     disparity |-> run.aligned.disparity, num_concepts |-> Len(run.nodes)]

\* the database table and the two files a call reads
Store(run) == <<run.rows, run.minilm_data, run.qwen_data>>

C18_ManifoldCase ==
    /\ session.run = 2
    /\ manifold.pc = "returned"
    /\ Len(manifold.nodes) >= 3

\* generate_dual_layout has made both organic layout calls
OrganicLayoutsMade == dual.organic_args /= <<>>

\* C22, checked under SpecDual: in organic mode compute_knn_relationships is
\* called with the same k for Human and AI, and the two calls of
\* get_graph_layout_3d get the same spring_k and the same iterations.
C22_IdenticalHyperparameters ==
    /\ dual.knn_k /= <<>> => dual.knn_k[1] = dual.knn_k[2]
    /\ OrganicLayoutsMade =>
          /\ dual.knn_k /= <<>>
          /\ dual.organic_args[1].spring_k = dual.organic_args[2].spring_k
          /\ dual.organic_args[1].iterations = dual.organic_args[2].iterations

\* a run has returned its nodes after both organic layouts, whose seeds differ
C22_Witness ==
    /\ dual.pc = "returned"
    /\ OrganicLayoutsMade
    /\ dual.organic_args[1].seed /= dual.organic_args[2].seed
    /\ Len(dual.nodes) >= 3

\* align_umap_coords has returned aligned coordinates to generate_umap_layout
UmapCoordsReturned == manifold.pc \in {"aligned", "returned"}

\* C23, checked under SpecManifold: align_umap_coords returns aligned
\* coordinates only for 3 or more concepts; with fewer the run ends with the
\* InsufficientOverlap error.
C23_UmapInsufficientOverlap ==
    /\ UmapCoordsReturned => Len(manifold.valid_concepts) >= 3
    /\ manifold.pc = "raised" /\ Len(manifold.valid_concepts) \in 1..2
          => manifold.error = "InsufficientOverlap"

\* two concepts are stored in both files, align_umap_coords has returned a
\* position for each, and the run has returned two nodes
C23_TwoConceptsAligned ==
    /\ manifold.pc = "returned"
    /\ Len(manifold.valid_concepts) = 2
    /\ Len(manifold.aligned.aligned_human) = 2
    /\ Len(manifold.nodes) = 2

\* generate_umap_layout has built its two matrices
MatricesBuilt == manifold.pc \in {"loaded", "aligned", "returned", "raised"}

\* the place of a concept in the concept list
PlaceIn(concepts, c) == CHOOSE i \in 1..Len(concepts) : concepts[i] = c

\* C24, checked under SpecManifold: the two matrices and valid_concepts have
\* the same length; row i of each matrix is the stored embedding of
\* valid_concepts[i]; valid_concepts holds exactly the concepts stored in both
\* files, in the order of the concept list; and the aligned dictionaries map
\* valid_concepts[i] to row i of the aligned (centered, and for AI rotated)
\* matrices.
C24_RowsFollowValidConcepts ==
    MatricesBuilt =>
       LET vc == manifold.valid_concepts
       IN /\ Len(manifold.human_matrix) = Len(vc)
          /\ Len(manifold.ai_matrix) = Len(vc)
          /\ \A i \in 1..Len(vc) :
                /\ manifold.human_matrix[i] = Get(manifold.minilm_data, vc[i])
                /\ manifold.ai_matrix[i] = Get(manifold.qwen_data, vc[i])
          /\ Range(vc) = {c \in Range(manifold.concepts) :
                             HasKey(manifold.minilm_data, c) /\ HasKey(manifold.qwen_data, c)}
          /\ \A i, j \in 1..Len(vc) :
                i < j => PlaceIn(manifold.concepts, vc[i]) < PlaceIn(manifold.concepts, vc[j])
          /\ UmapCoordsReturned =>
                LET human_centered == Centered(FitTransform(manifold.human_matrix,
                                                            manifold.placement[1]))
                    ai_centered == Centered(FitTransform(manifold.ai_matrix,
                                                         manifold.placement[2]))
                IN /\ Keys(manifold.aligned.aligned_human) = vc
                   /\ Keys(manifold.aligned.aligned_ai) = vc
                   /\ manifold.aligned.finite =>
                         \A i \in 1..Len(vc) :
                            /\ manifold.aligned.aligned_human[i][2] = human_centered[i]
                            /\ manifold.aligned.aligned_ai[i][2] =
                                  Rotated(ai_centered[i], manifold.aligned.R)

\* three concepts are valid, a fourth is stored in one file only, and the
\* alignment has returned finite positions
C24_Witness ==
    /\ UmapCoordsReturned
    /\ Len(manifold.valid_concepts) = 3
    /\ \E c \in Range(manifold.concepts) :
          HasKey(manifold.minilm_data, c) /\ ~HasKey(manifold.qwen_data, c)
    /\ manifold.aligned.finite
    /\ manifold.human_matrix[1] /= manifold.human_matrix[2]

\* the returned nodes whose concept has no organic-mode aligned coordinates
SphereOnlyNodes ==
    {i \in 1..Len(dual.nodes) : ~HasKey(dual.organic.aligned_human, dual.nodes[i].name)}

\* C26, checked under SpecDual: the two organic aligned dictionaries have the
\* same key set, and a returned node whose concept has sphere-mode but no
\* organic-mode aligned coordinates has the sphere positions as its organic
\* Human and AI positions, so that drift_organic and drift equal drift_sphere.
C26_OrganicFallsBackToSphere ==
    /\ dual.pc \in {"organic_done", "returned"} =>
          KeySet(dual.organic.aligned_human) = KeySet(dual.organic.aligned_ai)
    /\ dual.pc = "returned" =>
          \A i \in SphereOnlyNodes :
             LET node == dual.nodes[i]
             IN /\ HasKey(dual.sphere.aligned_human, node.name)
                /\ node.pos_human_organic = Get(dual.sphere.aligned_human, node.name)
                /\ node.pos_ai_organic = Get(dual.sphere.aligned_ai, node.name)
                /\ node.pos_human_organic = node.pos_human
                /\ node.pos_ai_organic = node.pos_ai
                /\ node.drift_organic = node.drift_sphere
                /\ node.drift = node.drift_sphere

\* a run has returned a node without organic coordinates whose sphere positions
\* differ from each other, next to nodes that have organic coordinates
C26_Witness ==
    /\ dual.pc = "returned"
    /\ \E i \in SphereOnlyNodes :
          /\ dual.nodes[i].pos_human /= dual.nodes[i].pos_ai
          /\ dual.nodes[i].pos_human /= <<0, 0, 0>>
    /\ \E i \in 1..Len(dual.nodes) : i \notin SphereOnlyNodes

\* the database handle of a run is closed, by the run or by the interpreter
Released(conn) == conn \in {"closed", "finalized"}

C29_DualLeftOpen ==
    /\ dual.pc = "returned"
    /\ Len(dual.nodes) >= 3
    /\ dual.conn = "open"

\* generate_umap_layout has returned its nodes and closed its connection
C29_ManifoldClosed ==
    /\ manifold.pc = "returned"
    /\ Len(manifold.nodes) >= 3
    /\ manifold.conn = "closed"

-----------------------------------------------------------------------------
(* Claims on the viewer service, checked under SpecServer *)

\* the sphere alignment of the run returned coordinates, the organic one raised
SphereOnlySucceeded ==
    /\ dual.sphere.error = "none"
    /\ Len(dual.sphere.shared_concepts) >= 3
    /\ dual.organic.error /= "none"

\* C11: when one layout mode fails structurally and the other succeeds, the
\* request is answered with the successful mode's nodes as a partial result.
C11_PartialResult ==
    (server.dual_response.status /= 0 /\ SphereOnlySucceeded) =>
        /\ server.dual_response.status = 200
        /\ NodeIds(server.dual_response.nodes) = SphereConcepts

\* C12: without the umap library the service still starts and keeps running;
\* only manifold requests fail, each with a reported error.
C12_UmapOptional ==
    ~server.umap_installed =>
        /\ server.state \in {"stopped", "running"}
        /\ server.manifold_response.status \in {0, 500}

-----------------------------------------------------------------------------
(* Claims on the viewer's projection cache, checked under SpecViewer and *)
(* SpecInterrupted *)

\* no call of calculate_3d_projection is running
NoProjectionRunning == viewer.pc = "idle"

\* C21, checked under SpecInterrupted: whenever no projection is being computed,
\* the cache file is absent or holds a completely written layout, and
\* _projection_cache is None or a layout (so nothing partial is left behind by a
\* computation that failed, returned nothing or was interrupted).
C21_CacheOnlyComplete ==
    NoProjectionRunning =>
       /\ viewer.cache_file.exists => viewer.cache_file.complete
       /\ viewer.last.outcome = "returned" /\ viewer.last.result.is_none
             => viewer.projection_cache.is_none \/ ~viewer.up

\* the process was killed between open(CACHE_PATH, 'wb') and the end of
\* pickle.dump: the file is there, without a whole pickle in it
C21_PartialFileLeft ==
    /\ ~viewer.up
    /\ viewer.cache_file.exists
    /\ ~viewer.cache_file.complete

\* with such a file the next launch does not come up
C21_StartupFails ==
    /\ C21_PartialFileLeft
    /\ viewer.last.outcome = "raised"

\* the cache file holds a completely written layout
CacheWritten == viewer.cache_file.exists /\ viewer.cache_file.complete

\* what GET /api/galaxy serves from a layout: one position per concept
PositionsFrom(coords_dict) == [c \in 1..ViewerIds |-> GetOr(coords_dict, c, <<0, 0, 0>>)]

\* C28, checked under SpecViewer: in every step taken while the cache file is
\* written, the file is left as it is unless it is removed; a call of
\* calculate_3d_projection that finishes returns the layout of the file and has
\* not read the relationship store; and a successful reply of GET /api/galaxy
\* carries the positions of that layout.
C28_CachedLayoutServed ==
    [][CacheWritten =>
          /\ viewer'.cache_file.exists => viewer'.cache_file = viewer.cache_file
          /\ viewer'.last /= viewer.last =>
                viewer'.last = [had_file |-> TRUE, read_store |-> FALSE, outcome |-> "returned",
                                result |-> Some(viewer.cache_file.layout)]
          /\ viewer'.served /= viewer.served /\ viewer'.served.status = 200 =>
                viewer'.served.positions = PositionsFrom(viewer.cache_file.layout)]_vars

\* the store has changed since the layout was cached (no recomputation would
\* give the cached layout), a relaunched process has loaded the file without
\* reading the store, and the last reply carries the cached positions
C28_Witness ==
    /\ CacheWritten
    /\ viewer.store.available
    /\ \A p \in 0..(NumPlacements - 1) :
          ViewerGraphLayout(viewer.store, p) /= Some(viewer.cache_file.layout)
    /\ viewer.last.had_file
    /\ ~viewer.last.read_store
    /\ viewer.last.result = Some(viewer.cache_file.layout)
    /\ viewer.served.status = 200
    /\ viewer.served.positions = PositionsFrom(viewer.cache_file.layout)

-----------------------------------------------------------------------------
(* Claims on the loading of stored arrays, checked under SpecLoad *)

\* the number of components of a stored array
Size(emb) == IF Len(emb.shape) = 1 THEN emb.shape[1] ELSE emb.shape[1] * emb.shape[2]

\* the first n components of a stored array, in the order of its buffer
FirstComponents(emb, n) == [k \in 1..n |-> emb.data[k]]

\* C25, checked under SpecLoad: every loaded vector is of rank 1; a loaded AI
\* vector holds the first AiDim components of the stored array, in their order,
\* when the stored array has more than AiDim components, and all of them
\* otherwise; a loaded Human vector holds all components; a stored array of rank
\* 1 that does not exceed the dimension is stored unchanged.
C25_FlattenAndTruncate ==
    loader.pc = "return" =>
       /\ \A i \in 1..Len(loader.ai_embeddings) :
             LET stored == Get(loader.qwen_data, loader.ai_embeddings[i][1])
                 emb == loader.ai_embeddings[i][2]
                 n == Min(Size(stored), AiDim)
             IN /\ emb.shape = <<n>>
                /\ emb.data = FirstComponents(stored, n)
                /\ Len(stored.shape) = 1 /\ Size(stored) <= AiDim => emb = stored
       /\ \A i \in 1..Len(loader.human_embeddings) :
             LET stored == Get(loader.minilm_data, loader.human_embeddings[i][1])
                 emb == loader.human_embeddings[i][2]
             IN /\ emb.shape = <<Size(stored)>>
                /\ emb.data = FirstComponents(stored, Size(stored))
                /\ Len(stored.shape) = 1 => emb = stored

\* an AI array of two rows of AiDim components each (an embedding stored twice)
\* was loaded as its first row, and an array within the dimension as itself
C25_Witness ==
    /\ loader.pc = "return"
    /\ Len(loader.ai_embeddings) = 2
    /\ Get(loader.qwen_data, loader.ai_embeddings[1][1]).shape = <<2, AiDim>>
    /\ loader.ai_embeddings[1][2] = Vector(AiDim)
    /\ Get(loader.qwen_data, loader.ai_embeddings[2][1]) = Vector(AiDim)
    /\ loader.ai_embeddings[2][2] = Vector(AiDim)

-----------------------------------------------------------------------------
(* Claims on LSCPScanner.batch_scan, checked under SpecScan *)

\* the results of the calls of scan_concept that succeed among the first n
RECURSIVE SuccessfulScans(_, _, _)
SuccessfulScans(concepts, outcomes, n) ==
    IF n = 0 THEN <<>>
    ELSE IF outcomes[n] = "ok"
         THEN Append(SuccessfulScans(concepts, outcomes, n - 1), ScanResult(concepts[n]))
         ELSE SuccessfulScans(concepts, outcomes, n - 1)

\* C30, checked under SpecScan: batch_scan calls scan_concept once per element
\* of the list, in list order (after i iterations the calls made are those for
\* the first i elements); no exception of scan_concept leaves batch_scan; and
\* the list it returns holds the results of the successful calls, in list
\* order, the results and the recorded failures adding up to the list's length.
C30_BatchScanTotal ==
    /\ scanner.pc /= "propagated"
    /\ scanner.pc \in {"loop", "returned"} =>
          /\ scanner.attempts = SubSeq(scanner.concepts, 1, scanner.i)
          /\ scanner.results = SuccessfulScans(scanner.concepts, scanner.outcomes, scanner.i)
          /\ Len(scanner.results) + Len(scanner.failed) = scanner.i
    /\ scanner.pc = "returned" =>
          /\ scanner.i = Len(scanner.concepts)
          /\ scanner.attempts = scanner.concepts
          /\ scanner.returned =
                SuccessfulScans(scanner.concepts, scanner.outcomes, Len(scanner.concepts))
          /\ Len(scanner.returned) + Len(scanner.failed) = Len(scanner.concepts)

\* three concepts, the second scan raised, the others succeeded: two results
\* came back in list order and one failure was recorded
C30_Witness ==
    /\ scanner.pc = "returned"
    /\ Len(scanner.concepts) = 3
    /\ scanner.outcomes = <<"ok", "Exception", "ok">>
    /\ scanner.returned = <<ScanResult(scanner.concepts[1]), ScanResult(scanner.concepts[3])>>
    /\ scanner.concepts[1] /= scanner.concepts[3]
    /\ Len(scanner.failed) = 1

====
